---- MODULE Spec2Model ----
(***************************************************************************)
(* Verification model of the locaspy Gemini analysis service: the JSON     *)
(* extraction of analyzeImage and the tiered confidence validator          *)
(* validateAnalysis (second GeminiService class of src/unnamed/part_000).  *)
(*                                                                         *)
(* Representation.  A JavaScript string is a sequence of one-character     *)
(* strings, so that includes, toLowerCase and length are computed on the   *)
(* characters.  A confidence is held in tenths of a percentage point       *)
(* (Scale), so that Math.round is not the identity; a coordinate is held   *)
(* in thousandths of a degree (Milli).                                     *)
(***************************************************************************)
EXTENDS Integers, Sequences, FiniteSets, TLC

VARIABLES
    call,       \* arguments of the validateAnalysis call under study
    outcome,    \* what that call produced (NoOutcome before it ran)
    prior,      \* outcome of the same call before a hedging word was added
    added,      \* where the hedging word was added ("none" before that)
    cache,      \* GeminiService.cache: key -> [result, timestamp]
    now,        \* Date.now(), in milliseconds
    apiKey,     \* whether a Gemini API key is configured
    req,        \* the analyzeImage calls: position, arguments, settlement
    modelCalls, \* number of model.generateContent calls made so far
    users,      \* localStorage 'geospy_users': the stored users, in order
    session,    \* localStorage 'geospy_session': a user or Null
    authCalls,  \* the authService calls not settled yet, in the order made
    settled,    \* the authService call that settled last (Null before)
    issued,     \* number of calls with a timer made on authService so far
    quiet,      \* whether a logout has resolved with no register, login or
                \* loginWithGoogle call made since
    history,        \* analysisStore: the results, newest first
    currentResult,  \* analysisStore: a result or Null
    storeError,     \* analysisStore: error, [message |-> ...] or Null
    isAnalyzing,    \* analysisStore: isAnalyzing
    analyses,       \* number of analyzeImage and analyzeImageWithValidation
                    \* calls of the store in flight
    storeOp,        \* the operation of the store that ran last
    applied,    \* the clamp rules applied so far to the running confidence
    running,    \* the running confidence of the rules applied one by one
    tasks,      \* AgentService.tasks: task id -> AgentTask
    created,    \* number of tasks created so far
    runs,       \* the executeBatchAnalysis calls, in the order made
    cancelled,  \* the ids of the tasks for which cancelTask returned true
    isProcessing  \* useAgentStore: isProcessing

vvars == <<call, outcome, prior, added>>

avars == <<cache, now, apiKey, req, modelCalls>>

uvars == <<users, session, authCalls, settled, issued, quiet>>

svars == <<history, currentResult, storeError, isAnalyzing, analyses, storeOp>>

pvars == <<applied, running>>

gvars == <<tasks, created, runs, cancelled, isProcessing>>

xvars == <<pvars, gvars>>

vars == <<vvars, avars, uvars, svars, xvars>>

---------------------------------------------------------------------------
(* Numbers *)

Scale == 10

Milli == 1000

Pct(n) == n * Scale

Deg(n) == n * Milli

MathMin(a, b) == IF a < b THEN a ELSE b

MathMax(a, b) == IF a > b THEN a ELSE b

\* Math.round: nearest integer, halves toward +Infinity
MathRound(x) == ((x + (Scale \div 2)) \div Scale) * Scale

IsInteger(x) == x % Scale = 0

---------------------------------------------------------------------------
(* Strings *)

UpperChars == <<"A","B","C","D","E","F","G","H","I","J","K","L","M","N","O","P","Q","R","S","T","U","V","W","X","Y","Z">>

LowerChars == <<"a","b","c","d","e","f","g","h","i","j","k","l","m","n","o","p","q","r","s","t","u","v","w","x","y","z">>

\* Let(v, F) is F(v) with v evaluated once
Let(v, F(_)) == CHOOSE y \in { F(x) : x \in {v} } : TRUE

UpperToLower ==
    Let([c \in {UpperChars[i] : i \in DOMAIN UpperChars} |->
            LowerChars[CHOOSE i \in DOMAIN UpperChars : UpperChars[i] = c]],
        LAMBDA f : f @@ <<>>)

LowerToUpper ==
    Let([c \in {LowerChars[i] : i \in DOMAIN LowerChars} |->
            UpperChars[CHOOSE i \in DOMAIN LowerChars : LowerChars[i] = c]],
        LAMBDA f : f @@ <<>>)

LowerChar(c) == IF c \in DOMAIN UpperToLower THEN UpperToLower[c] ELSE c

\* String.prototype.toLowerCase
ToLowerCase(s) == [i \in DOMAIN s |-> LowerChar(s[i])]

\* String.prototype.includes
Includes(s, w) ==
    \E i \in 1..(Len(s) - Len(w) + 1) :
        s[i] = w[1] /\ SubSeq(s, i, i + Len(w) - 1) = w

\* Array.prototype.filter(pred).length, for arr a sequence
FilterCount(arr, Pred(_)) == Cardinality({i \in DOMAIN arr : Pred(arr[i])})

\* Array.prototype.some
Some(arr, Pred(_)) == \E i \in DOMAIN arr : Pred(arr[i])

\* parts[k] \o sep \o ... \o parts[Len(parts)]
RECURSIVE JoinFrom(_, _, _)
JoinFrom(parts, sep, k) ==
    IF k > Len(parts) THEN <<>>
    ELSE IF k = Len(parts) THEN parts[k]
    ELSE parts[k] \o sep \o JoinFrom(parts, sep, k + 1)

\* Array.prototype.join
Join(parts, sep) == Let(parts, LAMBDA ps : JoinFrom(ps, sep, 1))

Concat(ss) == Join(ss, <<>>)

---------------------------------------------------------------------------
(* validateAnalysis, tiered variant *)

uncertaintyWords == <<
    <<"m","a","y","b","e">>, <<"p","o","s","s","i","b","l","y">>, <<"m","i","g","h","t">>, <<"c","o","u","l","d"," ","b","e">>, <<"a","p","p","e","a","r","s"," ","t","o"," ","b","e">>,
    <<"s","e","e","m","s"," ","l","i","k","e">>, <<"p","r","o","b","a","b","l","y">>, <<"p","e","r","h","a","p","s">>, <<"l","i","k","e","l","y">>, <<"s","u","g","g","e","s","t">>,
    <<"i","n","d","i","c","a","t","e">>, <<"m","a","y"," ","b","e">>, <<"u","n","c","l","e","a","r">>, <<"d","i","f","f","i","c","u","l","t"," ","t","o"," ","d","e","t","e","r","m","i","n","e">> >>

tier1Indicators == <<
    <<"s","t","r","e","e","t"," ","s","i","g","n">>, <<"s","t","r","e","e","t"," ","n","a","m","e">>, <<"l","i","c","e","n","s","e"," ","p","l","a","t","e">>, <<"p","l","a","t","e"," ","n","u","m","b","e","r">>,
    <<"s","t","o","r","e"," ","n","a","m","e">>, <<"b","u","s","i","n","e","s","s"," ","n","a","m","e">>, <<"l","a","n","d","m","a","r","k">>, <<"m","o","n","u","m","e","n","t">>,
    <<"u","n","i","q","u","e"," ","a","r","c","h","i","t","e","c","t","u","r","e">>, <<"s","p","e","c","i","f","i","c"," ","l","a","n","g","u","a","g","e">>, <<"f","l","a","g">>, <<"c","o","o","r","d","i","n","a","t","e","s">>,
    <<"p","o","s","t","a","l"," ","c","o","d","e">>, <<"a","r","e","a"," ","c","o","d","e">>, <<"m","e","t","r","o"," ","s","t","a","t","i","o","n">>, <<"t","r","a","i","n"," ","s","t","a","t","i","o","n">> >>

tier2Indicators == <<
    <<"a","r","c","h","i","t","e","c","t","u","r","e">>, <<"b","u","i","l","d","i","n","g"," ","s","t","y","l","e">>, <<"r","o","a","d"," ","m","a","r","k","i","n","g">>, <<"t","r","a","f","f","i","c"," ","s","i","g","n">>,
    <<"v","e","h","i","c","l","e"," ","t","y","p","e">>, <<"c","h","a","i","n"," ","s","t","o","r","e">>, <<"r","e","s","t","a","u","r","a","n","t"," ","c","h","a","i","n">>, <<"e","l","e","c","t","r","i","c","a","l">>,
    <<"c","l","i","m","a","t","e">>, <<"v","e","g","e","t","a","t","i","o","n">>, <<"u","r","b","a","n"," ","p","l","a","n","n","i","n","g">> >>

genericTerms == <<
    <<"b","u","i","l","d","i","n","g">>, <<"s","t","r","e","e","t">>, <<"r","o","a","d">>, <<"t","r","e","e">>, <<"s","k","y">>, <<"g","e","n","e","r","i","c">> >>

unknownWord == <<"u","n","k","n","o","w","n">>

\* the table with the fourth box starting one degree further east
waterRegions_Gap == <<
    [latMin |-> Deg(-60), latMax |-> Deg(60), lngMin |-> Deg(120),  lngMax |-> Deg(180)],
    [latMin |-> Deg(-60), latMax |-> Deg(60), lngMin |-> Deg(-180), lngMax |-> Deg(-80)],
    [latMin |-> Deg(-60), latMax |-> Deg(70), lngMin |-> Deg(-80),  lngMax |-> Deg(20)],
    [latMin |-> Deg(-60), latMax |-> Deg(30), lngMin |-> Deg(21),   lngMax |-> Deg(120)] >>

waterRegions == <<
    [latMin |-> Deg(-60), latMax |-> Deg(60), lngMin |-> Deg(120),  lngMax |-> Deg(180)],
    [latMin |-> Deg(-60), latMax |-> Deg(60), lngMin |-> Deg(-180), lngMax |-> Deg(-80)],
    [latMin |-> Deg(-60), latMax |-> Deg(70), lngMin |-> Deg(-80),  lngMax |-> Deg(20)],
    [latMin |-> Deg(-60), latMax |-> Deg(30), lngMin |-> Deg(20),   lngMax |-> Deg(120)] >>

\* the boxes without their edges
isLikelyWater_Exclusive(lat, lng) ==
    \E r \in DOMAIN waterRegions :
        /\ lat > waterRegions[r].latMin /\ lat < waterRegions[r].latMax
        /\ lng > waterRegions[r].lngMin /\ lng < waterRegions[r].lngMax

\* waterRegions.some(region => ...)
isLikelyWater(lat, lng) ==
    \E r \in DOMAIN waterRegions :
        /\ lat >= waterRegions[r].latMin /\ lat <= waterRegions[r].latMax
        /\ lng >= waterRegions[r].lngMin /\ lng <= waterRegions[r].lngMax

\* A parsed reply object may lack keys; reading a lacking key yields
\* undefined, and a property read or method call on undefined throws.
Has(response, key) == key \notin response.missing

MsgUncertainty(count, penalty) ==
    "Uncertainty detected (" \o ToString(count) \o " indicators) - reduced by "
        \o ToString(penalty \div Scale) \o "%"

MsgNoTier1 == "No TIER 1 indicators - capped at 70%"

MsgWeak == "Insufficient strong indicators - capped at 50%"

MsgCoords == "Invalid coordinates detected"

MsgWater == "Location appears to be in water body"

MsgFewClues == "Insufficient clues provided"

MsgNoClues == "No clues provided"

MsgGeneric == "Description too generic"

MsgUnknown == "Location marked as unknown"

MsgReasoning == "Insufficient reasoning provided"

uncertaintyCountOf(rawText) ==
    Let(ToLowerCase(rawText), LAMBDA lower :
        FilterCount(uncertaintyWords, LAMBDA word : Includes(lower, word)))

indicatorCount(indicators, clues) ==
    Let([k \in DOMAIN clues |-> ToLowerCase(clues[k])], LAMBDA lowered :
        FilterCount(indicators, LAMBDA indicator :
            Some(lowered, LAMBDA clue : Includes(clue, indicator))))

genericCountOf(description) ==
    Let(ToLowerCase(description), LAMBDA lower :
        FilterCount(genericTerms, LAMBDA term : Includes(lower, term)))

\* the check without toLowerCase
markedUnknown_CaseSensitive(location) ==
    \/ Includes(location.city, unknownWord)
    \/ Includes(location.country, unknownWord)

markedUnknown(location) ==
    \/ Includes(ToLowerCase(location.city), unknownWord)
    \/ Includes(ToLowerCase(location.country), unknownWord)

\* a clamp that assigns the cap instead of taking the minimum
Clamp_Assign(s, cap, msg) ==
    [confidence |-> cap, reasons |-> Append(s.reasons, msg)]

\* confidence = Math.min(confidence, cap); reasons.push(msg)
Clamp(s, cap, msg) ==
    [confidence |-> MathMin(s.confidence, cap), reasons |-> Append(s.reasons, msg)]

\* the penalty added instead of subtracted
uncertaintyRule_Adds(s, uncertaintyCount) ==
    IF uncertaintyCount > 0
    THEN LET penalty == MathMin(uncertaintyCount * Pct(10), Pct(40))
         IN  [confidence |-> MathMax(s.confidence + penalty, 0),
              reasons |-> Append(s.reasons, MsgUncertainty(uncertaintyCount, penalty))]
    ELSE s

\* the penalty subtracted without the floor at 0
uncertaintyRule_NoFloor(s, uncertaintyCount) ==
    IF uncertaintyCount > 0
    THEN LET penalty == MathMin(uncertaintyCount * Pct(10), Pct(40))
         IN  [confidence |-> s.confidence - penalty,
              reasons |-> Append(s.reasons, MsgUncertainty(uncertaintyCount, penalty))]
    ELSE s

\* the penalty without its cap of 40
uncertaintyRule_NoCap(s, uncertaintyCount) ==
    IF uncertaintyCount > 0
    THEN LET penalty == uncertaintyCount * Pct(10)
         IN  [confidence |-> MathMax(s.confidence - penalty, 0),
              reasons |-> Append(s.reasons, MsgUncertainty(uncertaintyCount, penalty))]
    ELSE s

\* 1. uncertainty indicators in the raw text
uncertaintyRule(s, uncertaintyCount) ==
    IF uncertaintyCount > 0
    THEN LET penalty == MathMin(uncertaintyCount * Pct(10), Pct(40))
         IN  [confidence |-> MathMax(s.confidence - penalty, 0),
              reasons |-> Append(s.reasons, MsgUncertainty(uncertaintyCount, penalty))]
    ELSE s

\* 4. adjustment based on indicator quality
noTier1Rule(s, tier1Count) ==
    IF tier1Count = 0 /\ s.confidence > Pct(70)
    THEN Clamp(s, Pct(70), MsgNoTier1) ELSE s

\* the combined cap with 'tier2Count <= 2'
weakIndicatorsRule_AtMostTwo(s, tier1Count, tier2Count) ==
    IF tier1Count = 0 /\ tier2Count <= 2 /\ s.confidence > Pct(50)
    THEN Clamp(s, Pct(50), MsgWeak) ELSE s

weakIndicatorsRule(s, tier1Count, tier2Count) ==
    IF tier1Count = 0 /\ tier2Count < 2 /\ s.confidence > Pct(50)
    THEN Clamp(s, Pct(50), MsgWeak) ELSE s

coordinatesOutOfRange(lat, lng) ==
    lat < Deg(-90) \/ lat > Deg(90) \/ lng < Deg(-180) \/ lng > Deg(180)

\* 5. coordinates are reasonable
coordinatesRule(s, lat, lng) ==
    IF coordinatesOutOfRange(lat, lng)
    THEN Clamp(s, Pct(20), MsgCoords) ELSE s

\* 6. location is in water
waterRule(s, lat, lng) ==
    IF isLikelyWater(lat, lng)
    THEN Clamp(s, Pct(15), MsgWater) ELSE s

\* 7. clue quantity
fewCluesRule(s, clues) ==
    IF Len(clues) < 2 THEN Clamp(s, Pct(40), MsgFewClues) ELSE s

\* the second clamp as the else-branch of the first, which never runs
noCluesRule_ElseIf(s, clues) ==
    IF Len(clues) < 2 THEN s
    ELSE IF Len(clues) < 1 THEN Clamp(s, Pct(20), MsgNoClues) ELSE s

noCluesRule(s, clues) ==
    IF Len(clues) < 1 THEN Clamp(s, Pct(20), MsgNoClues) ELSE s

\* the generic-description rule without the test of the running confidence
genericRule_Unguarded(s, genericCount) ==
    IF genericCount > 2 THEN Clamp(s, Pct(40), MsgGeneric) ELSE s

\* 8. generic descriptions
genericRule(s, genericCount) ==
    IF genericCount > 2 /\ s.confidence > Pct(40)
    THEN Clamp(s, Pct(40), MsgGeneric) ELSE s

\* 9. city or country "Unknown"
unknownRule(s, unknown) ==
    IF unknown THEN Clamp(s, Pct(30), MsgUnknown) ELSE s

\* 10. reasoning quality
reasoningRule(s, reasoning) ==
    IF Len(reasoning) < 50 THEN Clamp(s, Pct(50), MsgReasoning) ELSE s

\* the final score without the lower bound
finalScore_NoFloor(s) ==
    [confidence |-> MathMin(Pct(100), MathRound(s.confidence)),
     reasons |-> s.reasons]

\* final confidence score
finalScore(s) ==
    [confidence |-> MathMax(0, MathMin(Pct(100), MathRound(s.confidence))),
     reasons |-> s.reasons]

NumSteps == 11

\* the k-th statement group of validateAnalysis applied to the running
\* (confidence, reasons); t holds the values computed from the arguments
step(k, s, t) ==
    CASE k = 1  -> uncertaintyRule(s, t.uncertaintyCount)
      [] k = 2  -> noTier1Rule(s, t.tier1Count)
      [] k = 3  -> weakIndicatorsRule(s, t.tier1Count, t.tier2Count)
      [] k = 4  -> coordinatesRule(s, t.lat, t.lng)
      [] k = 5  -> waterRule(s, t.lat, t.lng)
      [] k = 6  -> fewCluesRule(s, t.clues)
      [] k = 7  -> noCluesRule(s, t.clues)
      [] k = 8  -> genericRule(s, t.genericCount)
      [] k = 9  -> unknownRule(s, t.unknown)
      [] k = 10 -> reasoningRule(s, t.reasoning)
      [] k = 11 -> finalScore(s)

RECURSIVE runSteps(_, _, _)
runSteps(k, acc, t) ==
    IF k > NumSteps THEN acc
    ELSE runSteps(k + 1, Append(acc, step(k, acc[Len(acc)], t)), t)

\* the statement groups of the sequence applied in its order
RECURSIVE runSteps_from(_, _, _)
runSteps_from(ks, s, t) ==
    IF ks = <<>> THEN s
    ELSE runSteps_from(Tail(ks), step(Head(ks), s, t), t)

\* the values validateAnalysis computes from its arguments
stepInputs(response, rawText) ==
    [ uncertaintyCount |-> uncertaintyCountOf(rawText),
      tier1Count |-> indicatorCount(tier1Indicators, response.analysis.clues),
      tier2Count |-> indicatorCount(tier2Indicators, response.analysis.clues),
      lat |-> response.location.lat,
      lng |-> response.location.lng,
      clues |-> response.analysis.clues,
      genericCount |-> genericCountOf(response.analysis.description),
      unknown |-> markedUnknown(response.location),
      reasoning |-> response.analysis.reasoning ]

\* The values of (confidence, reasons) on entry and after each statement
\* group of validateAnalysis, in program order: element k + 1 is the value
\* after step k, the last one is after the final normalisation.
validateSteps(response, rawText) ==
    runSteps(1,
        << [confidence |-> response.location.confidence, reasons |-> <<>>] >>,
        stepInputs(response, rawText))

\* A TypeError is thrown where the code dereferences a key the object lacks:
\* clues.some, description.toLowerCase, city.toLowerCase, country.toLowerCase
\* (not reached when city already contains 'unknown'), reasoning.length.
validateThrows(response) ==
    \/ ~Has(response, "clues")
    \/ ~Has(response, "description")
    \/ ~Has(response, "city")
    \/ /\ ~Has(response, "country")
       /\ ~Includes(ToLowerCase(response.location.city), unknownWord)
    \/ ~Has(response, "reasoning")

\* the result with the validity threshold of the earlier variant
validationResult_Threshold30(steps) ==
    [kind |-> "return",
     isValid |-> steps[Len(steps)].confidence >= Pct(30),
     confidence |-> steps[Len(steps)].confidence,
     reasons |-> steps[Len(steps)].reasons,
     steps |-> steps]

\* the returned ValidationResult; steps is kept beside it for the statements
\* about the running confidence
validationResult(steps) ==
    [kind |-> "return",
     isValid |-> steps[Len(steps)].confidence >= Pct(20),
     confidence |-> steps[Len(steps)].confidence,
     reasons |-> steps[Len(steps)].reasons,
     steps |-> steps]

validateAnalysis(response, rawText) ==
    IF validateThrows(response)
    THEN [kind |-> "throw", error |-> "TypeError"]
    ELSE Let(validateSteps(response, rawText), validationResult)

---------------------------------------------------------------------------
(* The reply text of the model: optional prose followed by the JSON object *)
(* in the OUTPUT FORMAT the prompt asks for.                               *)

DigitChars == <<"0","1","2","3","4","5","6","7","8","9">>

RECURSIVE NatChars(_)
NatChars(n) ==
    IF n < 10 THEN <<DigitChars[n + 1]>>
    ELSE NatChars(n \div 10) \o <<DigitChars[(n % 10) + 1]>>

RECURSIVE FracChars(_, _)
FracChars(f, unit) ==
    IF f = 0 THEN <<>>
    ELSE <<DigitChars[((f * 10) \div unit) + 1]>> \o FracChars((f * 10) % unit, unit)

\* decimal text of the number x / unit
NumberChars(x, unit) ==
    LET a == IF x < 0 THEN -x ELSE x
    IN  (IF x < 0 THEN <<"-">> ELSE <<>>)
        \o NatChars(a \div unit)
        \o (IF a % unit = 0 THEN <<>> ELSE <<".">> \o FracChars(a % unit, unit))

Quoted(s) == <<"\"">> \o s \o <<"\"">>

Member(key, text) == Quoted(key) \o <<":">> \o text

ArrayText(items) ==
    <<"[">> \o Join([k \in DOMAIN items |-> Quoted(items[k])], <<",">>) \o <<"]">>

ObjectText(members) == <<"{">> \o Join(members, <<",">>) \o <<"}">>

\* the text of a member when the object has the key
Opt(response, key, name, text) ==
    IF Has(response, key) THEN <<Member(name, text)>> ELSE <<>>

LocationText(response) ==
    ObjectText(
        Opt(response, "city", <<"c","i","t","y">>, Quoted(response.location.city))
        \o Opt(response, "country", <<"c","o","u","n","t","r","y">>, Quoted(response.location.country))
        \o Opt(response, "lat", <<"l","a","t">>, NumberChars(response.location.lat, Milli))
        \o Opt(response, "lng", <<"l","n","g">>, NumberChars(response.location.lng, Milli))
        \o Opt(response, "confidence", <<"c","o","n","f","i","d","e","n","c","e">>,
               NumberChars(response.location.confidence, Scale)))

AnalysisText(response) ==
    ObjectText(
        Opt(response, "description", <<"d","e","s","c","r","i","p","t","i","o","n">>, Quoted(response.analysis.description))
        \o Opt(response, "clues", <<"c","l","u","e","s">>, ArrayText(response.analysis.clues))
        \o Opt(response, "reasoning", <<"r","e","a","s","o","n","i","n","g">>, Quoted(response.analysis.reasoning)))

Serialize(response) ==
    ObjectText(
        Opt(response, "location", <<"l","o","c","a","t","i","o","n">>, LocationText(response))
        \o Opt(response, "analysis", <<"a","n","a","l","y","s","i","s">>, AnalysisText(response)))

---------------------------------------------------------------------------
(* Inputs *)

MaxProseHedges == 4

\* prose naming the first n entries of the hedging vocabulary, capitalised
\* on odd positions
UpperFirst(w) == [i \in DOMAIN w |->
    IF i = 1 /\ w[1] \in DOMAIN LowerToUpper THEN LowerToUpper[w[1]] ELSE w[i]]

Prose(n) ==
    Concat([k \in 1..n |->
        (IF k % 2 = 1 THEN UpperFirst(uncertaintyWords[k]) ELSE uncertaintyWords[k])
        \o <<"."," ">>])

BerlinCoords == [lat |-> 52520, lng |-> 13405]

MoscowCoords == [lat |-> 55750, lng |-> 37620]

PacificCoords == [lat |-> 0, lng |-> Deg(-160)]

FarCoords == [lat |-> Deg(999), lng |-> Deg(999)]

Coordinates == { BerlinCoords, MoscowCoords, PacificCoords, FarCoords }

ClueSign == <<"B","u","n","d","e","s","g","a","s","s","e"," ","s","t","r","e","e","t"," ","s","i","g","n">>

ClueLogo == <<"D","e","u","t","s","c","h","e"," ","B","a","h","n"," ","l","o","g","o">>

ClueLists ==
    { <<>>,
      <<<<"c","l","u","e","1">>>>,
      <<ClueSign, ClueLogo>>,
      <<<<"B","r","i","c","k"," ","A","r","c","h","i","t","e","c","t","u","r","e">>, <<"d","e","n","s","e"," ","v","e","g","e","t","a","t","i","o","n">>>>,
      <<<<"c","l","u","e","1">>, <<"T","r","a","f","f","i","c"," ","s","i","g","n","s">>>> }

DescriptionA == <<"u","r","b","a","n"," ","s","t","r","e","e","t"," ","s","c","e","n","e">>

Descriptions == { DescriptionA, <<"A"," ","S","t","r","e","e","t"," ","w","i","t","h"," ","a"," ","b","u","i","l","d","i","n","g",","," ","a"," ","t","r","e","e"," ","a","n","d"," ","s","k","y">> }

Places ==
    { [city |-> <<"B","e","r","l","i","n">>, country |-> <<"G","e","r","m","a","n","y">>],
      [city |-> <<"U","n","k","n","o","w","n">>, country |-> <<"G","e","r","m","a","n","y">>],
      [city |-> <<"B","e","r","l","i","n">>, country |-> <<"U","N","K","N","O","W","N"," ","r","e","g","i","o","n">>] }

ReasoningA == <<"C","l","e","a","r"," ","G","e","r","m","a","n"," ","s","i","g","n","a","g","e"," ","a","n","d"," ","t","r","a","n","s","i","t"," ","b","r","a","n","d","i","n","g"," ","o","b","s","e","r","v","e","d"," ","t","h","r","o","u","g","h","o","u","t"," ","t","h","e"," ","f","r","a","m","e"," ","c","o","n","f","i","r","m","i","n","g"," ","l","o","c","a","t","i","o","n"," ","p","r","e","c","i","s","e","l","y">>

\* 46 characters, one hedging word
ReasoningNear == <<"T","h","i","s"," ","m","i","g","h","t"," ","b","e"," ","c","e","n","t","r","a","l"," ","B","e","r","l","i","n",","," ","b","y"," ","t","r","a","m"," ","b","r","a","n","d","i","n","g">>

Reasonings == { ReasoningA, ReasoningNear }

\* reported confidences, in percentage points and in tenths (non-integers)
ReportedPercents == { -5, 0, 20, 75, 85, 104 }

ReportedConfidences == { Pct(c) : c \in ReportedPercents } \cup { Pct(84) + 5 }

Response(place, coords, confidence, description, clues, reasoning, missing) ==
    [ location |-> [ city |-> place.city, country |-> place.country,
                     lat |-> coords.lat, lng |-> coords.lng,
                     confidence |-> confidence ],
      analysis |-> [ description |-> description, clues |-> clues,
                     reasoning |-> reasoning ],
      missing |-> missing ]

ScenarioA == Response([city |-> <<"B","e","r","l","i","n">>, country |-> <<"G","e","r","m","a","n","y">>], BerlinCoords,
                      Pct(85), DescriptionA, <<ClueSign, ClueLogo>>, ReasoningA, {})

\* well-formed parsed objects
FullResponses ==
    { Response(p, xy, c, d, cl, r, {}) :
        p \in Places, xy \in Coordinates, c \in ReportedConfidences,
        d \in Descriptions, cl \in ClueLists, r \in Reasonings }

\* objects that have the location and analysis keys but lack one inner key
\* (the lacking key holds an empty placeholder that is never read)
Lacking(key) ==
    { Response([city |-> IF key = "city" THEN <<>> ELSE p.city,
                country |-> IF key = "country" THEN <<>> ELSE p.country],
               MoscowCoords, c,
               IF key = "description" THEN <<>> ELSE DescriptionA,
               IF key = "clues" THEN <<>> ELSE <<ClueSign, ClueLogo>>,
               IF key = "reasoning" THEN <<>> ELSE ReasoningA,
               {key}) :
        p \in Places, c \in { Pct(85), Pct(15) } }

PartialResponses ==
    UNION { Lacking(key) : key \in {"city", "country", "description", "clues", "reasoning"} }

Responses == FullResponses \cup PartialResponses

NoOutcome == [kind |-> "none"]

\* the raw text handed to validateAnalysis by analyzeImage is the whole
\* reply: prose, then the object
RawText(prose, response) == prose \o Serialize(response)

\* a call is held as the parsed object and the prose before it
Calls ==
    { [response |-> r, prose |-> Prose(n)] : r \in Responses, n \in 0..MaxProseHedges }

RawTextOf(c) == RawText(c.prose, c.response)

\* the hedging words added to a reply, and where
AddedWord == <<"M","a","y","b","e">>

AddedPlaces == { "prose", "reasoning" }

WithHedge(c, word, place) ==
    IF place = "prose"
    THEN [c EXCEPT !.prose = @ \o word \o <<"."," ">>]
    ELSE [c EXCEPT !.response.analysis.reasoning = @ \o <<" ">> \o word]

---------------------------------------------------------------------------
(* analyzeImage *)

CACHE_TTL == 1000 * 60 * 60

KeyLength == 100

\* String.prototype.slice(0, n)
Slice0(s, n) == SubSeq(s, 1, MathMin(n, Len(s)))

\* the key is the whole text of the image
getCacheKey_Whole(imageBase64) == imageBase64

getCacheKey(imageBase64) == Slice0(imageBase64, KeyLength)

\* the lookup without the age test
getFromCache_NoExpiry(imageBase64) ==
    Let(getCacheKey(imageBase64), LAMBDA key :
        IF key \in DOMAIN cache
        THEN [found |-> TRUE, result |-> cache[key].result]
        ELSE [found |-> FALSE])

\* the cached result, or null (found = FALSE)
getFromCache(imageBase64) ==
    Let(getCacheKey(imageBase64), LAMBDA key :
        IF key \in DOMAIN cache /\ now - cache[key].timestamp < CACHE_TTL
        THEN [found |-> TRUE, result |-> cache[key].result]
        ELSE [found |-> FALSE])

\* the cache after setCache(imageBase64, result)
setCache(imageBase64, result) ==
    Let(getCacheKey(imageBase64), LAMBDA key :
        [k \in DOMAIN cache \cup {key} |->
            IF k = key THEN [result |-> result, timestamp |-> now] ELSE cache[k]])

MsgNoApiKey == <<"G","e","m","i","n","i"," ","A","P","I"," ","k","e","y"," ","i","s"," ","n","o","t"," ","c","o","n","f","i","g","u","r","e","d","."," ","P","l","e","a","s","e"," ","a","d","d"," ","y","o","u","r"," ","A","P","I"," ","k","e","y"," ","i","n"," ","S","e","t","t","i","n","g","s",".">>

MsgInvalidFormat == <<"I","n","v","a","l","i","d"," ","r","e","s","p","o","n","s","e"," ","f","o","r","m","a","t"," ","f","r","o","m"," ","G","e","m","i","n","i","."," ","T","h","e"," ","A","I"," ","d","i","d"," ","n","o","t"," ","r","e","t","u","r","n"," ","v","a","l","i","d"," ","J","S","O","N",".">>

MsgInvalidStructure == <<"I","n","v","a","l","i","d"," ","r","e","s","p","o","n","s","e"," ","s","t","r","u","c","t","u","r","e"," ","f","r","o","m"," ","G","e","m","i","n","i">>

MsgQuota == <<"A","P","I"," ","q","u","o","t","a"," ","e","x","c","e","e","d","e","d","."," ","P","l","e","a","s","e"," ","t","r","y"," ","a","g","a","i","n"," ","l","a","t","e","r"," ","o","r"," ","c","h","e","c","k"," ","y","o","u","r"," ","G","e","m","i","n","i"," ","A","P","I"," ","q","u","o","t","a",".">>

MsgFailed == <<"F","a","i","l","e","d"," ","t","o"," ","a","n","a","l","y","z","e"," ","i","m","a","g","e"," ","w","i","t","h"," ","A","I","."," ","P","l","e","a","s","e"," ","c","h","e","c","k"," ","y","o","u","r"," ","i","n","t","e","r","n","e","t"," ","c","o","n","n","e","c","t","i","o","n"," ","a","n","d"," ","t","r","y"," ","a","g","a","i","n",".">>

\* messages of the errors thrown by JSON.parse and by a read on undefined
MsgSyntaxError == <<"U","n","e","x","p","e","c","t","e","d"," ","t","o","k","e","n"," ","i","n"," ","J","S","O","N">>

MsgTypeError == <<"C","a","n","n","o","t"," ","r","e","a","d"," ","p","r","o","p","e","r","t","i","e","s"," ","o","f"," ","u","n","d","e","f","i","n","e","d">>

Error(name, message) == [name |-> name, message |-> message]

\* an extractor that selects the balanced object that ends last
jsonMatch_Balanced(text) ==
    Let({i \in DOMAIN text : text[i] = "{"}, LAMBDA opens :
    Let({i \in DOMAIN text : text[i] = "}"}, LAMBDA closes :
    Let({ p \in opens \X closes :
            /\ p[1] < p[2]
            /\ Cardinality({i \in opens : p[1] <= i /\ i <= p[2]})
                 = Cardinality({i \in closes : p[1] <= i /\ i <= p[2]})
            /\ \A j \in closes : (p[1] < j /\ j < p[2]) =>
                 Cardinality({i \in opens : p[1] <= i /\ i <= j})
                   > Cardinality({i \in closes : p[1] <= i /\ i <= j}) },
        LAMBDA balanced :
        IF balanced = {} THEN [found |-> FALSE]
        ELSE Let(CHOOSE p \in balanced :
                    \A q \in balanced : q[2] < p[2] \/ (q[2] = p[2] /\ p[1] <= q[1]),
                 LAMBDA p : [found |-> TRUE, span |-> SubSeq(text, p[1], p[2])]))))

\* text.match(/\{[\s\S]*\}/): from the first '{' to the last '}' after it
jsonMatch(text) ==
    Let({i \in DOMAIN text : text[i] = "{"}, LAMBDA opens :
    Let({i \in DOMAIN text : text[i] = "}"}, LAMBDA closes :
        IF opens = {} \/ closes = {} THEN [found |-> FALSE]
        ELSE Let(CHOOSE i \in opens : \A j \in opens : i <= j, LAMBDA first :
             Let(CHOOSE i \in closes : \A j \in closes : i >= j, LAMBDA last :
                 IF last < first THEN [found |-> FALSE]
                 ELSE [found |-> TRUE, span |-> SubSeq(text, first, last)]))))

\* the objects the model can put in a reply
MoscowObject ==
    Response([city |-> <<"M","o","s","c","o","w">>, country |-> <<"R","u","s","s","i","a">>], MoscowCoords,
             Pct(85), DescriptionA, <<ClueSign, ClueLogo>>, ReasoningA, {})

NoCluesObject == [MoscowObject EXCEPT !.analysis.clues = <<>>, !.missing = {"clues"}]

NoAnalysisObject == [MoscowObject EXCEPT !.missing = {"analysis"}]

ReplyObjects == { MoscowObject, NoCluesObject, NoAnalysisObject }

\* JSON.parse, the inverse of the serialisation on the reply objects; any
\* other text is a syntax error
ParseTable == { [text |-> Serialize(o), value |-> o] : o \in ReplyObjects }

JSONparse(text) ==
    IF \E e \in ParseTable : e.text = text
    THEN [ok |-> TRUE, value |-> (CHOOSE e \in ParseTable : e.text = text).value]
    ELSE [ok |-> FALSE]

\* the catch block without the rethrow of 'Invalid response' errors
catchError_NoRethrow(error) ==
    IF Includes(error.message, <<"A","P","I"," ","k","e","y">>) THEN error
    ELSE IF Includes(error.message, <<"q","u","o","t","a">>) THEN Error("Error", MsgQuota)
    ELSE Error("Error", MsgFailed)

\* the catch block of analyzeImage: the error it rethrows
catchError(error) ==
    IF Includes(error.message, <<"A","P","I"," ","k","e","y">>) THEN error
    ELSE IF Includes(error.message, <<"q","u","o","t","a">>) THEN Error("Error", MsgQuota)
    ELSE IF Includes(error.message, <<"I","n","v","a","l","i","d"," ","r","e","s","p","o","n","s","e">>) THEN error
    ELSE Error("Error", MsgFailed)

Rejected(error) == [kind |-> "rejected", error |-> error]

Resolved(value) == [kind |-> "resolved", value |-> value]

Pending == [kind |-> "pending"]

\* the try block from the reply text on: how the call settles, how many
\* times validateAnalysis ran, and whether setCache ran
afterReply(text) ==
    Let(jsonMatch(text), LAMBDA m :
        IF ~m.found
        THEN [settled |-> Rejected(catchError(Error("Error", MsgInvalidFormat))),
              validated |-> 0, wrote |-> FALSE]
        ELSE Let(JSONparse(m.span), LAMBDA parsed :
            IF ~parsed.ok
            THEN [settled |-> Rejected(catchError(Error("SyntaxError", MsgSyntaxError))),
                  validated |-> 0, wrote |-> FALSE]
            ELSE IF ~Has(parsed.value, "location") \/ ~Has(parsed.value, "analysis")
            THEN [settled |-> Rejected(catchError(Error("Error", MsgInvalidStructure))),
                  validated |-> 0, wrote |-> FALSE]
            ELSE Let(validateAnalysis(parsed.value, text), LAMBDA validated :
                IF validated.kind = "throw"
                THEN [settled |-> Rejected(catchError(Error("TypeError", MsgTypeError))),
                      validated |-> 1, wrote |-> FALSE]
                ELSE [settled |-> Resolved([parsed.value EXCEPT
                                    !.location.confidence = validated.confidence]),
                      validated |-> 1, wrote |-> TRUE])))

MaxRequests == 2

MaxTicks == 2

Requests == 1..MaxRequests

ImagePrefix == [i \in 1..KeyLength |-> "A"]

\* two images with the same first 100 characters, and a shorter one
Images == { ImagePrefix \o <<"x">>, ImagePrefix \o <<"y">>, <<"i","V","B","O","R">> }

ReplyTexts ==
    { <<"I"," ","c","a","n","n","o","t"," ","d","e","t","e","r","m","i","n","e"," ","t","h","e"," ","l","o","c","a","t","i","o","n",".">>,
      <<"}"," ","n","o"," ","o","b","j","e","c","t"," ","{">>,
      <<"R","e","s","u","l","t",":"," ","{","c","i","t","y",":"," ","B","e","r","l","i","n","}">>,
      Prose(1) \o Serialize(MoscowObject),
      <<"F","o","r","m","a","t"," ","{","j","s","o","n","}",":"," ">> \o Serialize(MoscowObject),
      Serialize(MoscowObject) \o <<" ","{","e","n","d"," ","o","f"," ","a","n","s","w","e","r","}">>,
      Serialize(NoCluesObject),
      Serialize(NoAnalysisObject) }

\* errors the model call can reject with
ModelErrors ==
    { Error("TypeError", <<"F","a","i","l","e","d"," ","t","o"," ","f","e","t","c","h">>),
      Error("Error", <<"[","4","2","9","]"," ","Y","o","u"," ","e","x","c","e","e","d","e","d"," ","y","o","u","r"," ","c","u","r","r","e","n","t"," ","q","u","o","t","a">>),
      Error("Error", <<"[","4","0","0","]"," ","A","P","I"," ","k","e","y"," ","n","o","t"," ","v","a","l","i","d","."," ","P","l","e","a","s","e"," ","p","a","s","s"," ","a"," ","v","a","l","i","d"," ","A","P","I"," ","k","e","y",".">>) }

\* the try block on each reply text the model can give
afterReplies == [text \in ReplyTexts |-> afterReply(text)]

IdleRequest ==
    [pc |-> "idle", image |-> <<>>, via |-> "none", lookup |-> "none", text |-> <<>>,
     settled |-> Pending, validated |-> 0, wrote |-> FALSE]

\* what this.cache.get(key) held when getFromCache ran: no entry, an entry
\* younger than CACHE_TTL, or an older one
cacheLookup(imageBase64) ==
    IF getCacheKey(imageBase64) \notin DOMAIN cache THEN "none"
    ELSE IF getFromCache(imageBase64).found THEN "fresh"
    ELSE "expired"

\* analyzeImage up to the await of the model call
AnalyzeStart(r, imageBase64) ==
    /\ req[r].pc = "idle"
    /\ r > 1 => req[r - 1].pc # "idle"
    /\ \E cached \in {getFromCache(imageBase64)}, lookup \in {cacheLookup(imageBase64)} :
        IF cached.found
        THEN /\ req' = [req EXCEPT ![r] = [@ EXCEPT !.pc = "done", !.image = imageBase64,
                            !.lookup = lookup,
                            !.via = "cache", !.settled = Resolved(cached.result)]]
             /\ UNCHANGED modelCalls
        ELSE IF ~apiKey
        THEN /\ req' = [req EXCEPT ![r] = [@ EXCEPT !.pc = "done", !.image = imageBase64,
                            !.lookup = lookup,
                            !.via = "nokey", !.settled = Rejected(Error("Error", MsgNoApiKey))]]
             /\ UNCHANGED modelCalls
        ELSE /\ req' = [req EXCEPT ![r] = [@ EXCEPT !.pc = "awaiting", !.image = imageBase64,
                            !.lookup = lookup]]
             /\ modelCalls' = modelCalls + 1
    /\ UNCHANGED <<cache, now, apiKey, vvars, uvars, svars, xvars>>

\* the model call resolves with a reply text; the rest of the try block runs
ModelReplies(r, text) ==
    /\ req[r].pc = "awaiting"
    /\ \E a \in {afterReplies[text]} :
        /\ req' = [req EXCEPT ![r] = [@ EXCEPT !.pc = "done", !.via = "reply", !.text = text,
                        !.settled = a.settled, !.validated = a.validated,
                        !.wrote = a.wrote]]
        /\ cache' = IF a.wrote THEN setCache(req[r].image, a.settled.value) ELSE cache
    /\ UNCHANGED <<now, apiKey, modelCalls, vvars, uvars, svars, xvars>>

\* the model call rejects; the catch block runs
ModelFails(r, error) ==
    /\ req[r].pc = "awaiting"
    /\ req' = [req EXCEPT ![r] = [@ EXCEPT !.pc = "done", !.via = "failure",
                    !.settled = Rejected(catchError(error))]]
    /\ UNCHANGED <<cache, now, apiKey, modelCalls, vvars, uvars, svars, xvars>>

\* time passes
Tick ==
    /\ now < MaxTicks * (CACHE_TTL \div 2)
    /\ now' = now + (CACHE_TTL \div 2)
    /\ UNCHANGED <<cache, apiKey, req, modelCalls, vvars, uvars, svars, xvars>>

---------------------------------------------------------------------------
(* authService: users and session in localStorage, every operation but     *)
(* incrementAnalysisCount runs in a setTimeout callback                    *)

Null == [kind |-> "null"]

\* the setTimeout delays, in milliseconds
RegisterDelay == 800

LoginDelay == 600

LogoutDelay == 300

GetCurrentUserDelay == 200

UpdateUserDelay == 500

LoginWithGoogleDelay == 1000

\* the step of time: the greatest common divisor of the delays
TickMs == GetCurrentUserDelay \div 2

MsgUserExists == "User already exists with this email"

MsgInvalidLogin == "Invalid email or password"

MsgUserNotFound == "User not found"

\* const { password: _, ...userWithoutPassword } = user
withoutPassword(user) ==
    [id |-> user.id, email |-> user.email, name |-> user.name,
     analysisCount |-> user.analysisCount, isPremium |-> user.isPremium]

\* the user register creates; crypto.randomUUID() is an id no stored user has
newUser(email, password, name) ==
    [id |-> Len(users) + 1, email |-> email, password |-> password, name |-> name,
     analysisCount |-> 0, isPremium |-> FALSE]

\* users.find(u => u.email === email)
emailStored(email) == \E k \in DOMAIN users : users[k].email = email

\* users.findIndex(u => u.id === userId), 0 for -1
userIndexOf(userId) ==
    IF \E k \in DOMAIN users : users[k].id = userId
    THEN CHOOSE k \in DOMAIN users :
            users[k].id = userId /\ \A j \in 1..(k - 1) : users[j].id # userId
    ELSE 0

\* users.find(u => u.email === email && u.password === password), 0 for none
loginIndexOf(email, password) ==
    IF \E k \in DOMAIN users : users[k].email = email /\ users[k].password = password
    THEN CHOOSE k \in DOMAIN users :
            /\ users[k].email = email /\ users[k].password = password
            /\ \A j \in 1..(k - 1) :
                    ~(users[j].email = email /\ users[j].password = password)
    ELSE 0

MaxAuthCalls == 2

MaxAnalysisCount == 1

Emails == { "test@example.com", "other@example.com" }

Passwords == { "password123", "wrongpassword" }

UserIds == { 1 }

\* `user${Date.now()}@gmail.com`
GoogleEmails == { "user1000@gmail.com" }

StoredUser ==
    [id |-> 1, email |-> "test@example.com", password |-> "password123",
     name |-> "Test User", analysisCount |-> 0, isPremium |-> FALSE]

\* a call of authService: status "timer" while its setTimeout runs, "waiting"
\* while loginWithGoogle waits for the call it made; id numbers the
\* loginWithGoogle calls (0 for the others), parent is the loginWithGoogle
\* call that made this call (0 for a call from outside); rival tells whether
\* a register call for the same email was in flight when this call was made,
\* inQuiet whether the call was made in the present quiet period
AuthCall(op, id, email, password, userId, delay, parent) ==
    [op |-> op, id |-> id, email |-> email, password |-> password, userId |-> userId,
     left |-> delay, parent |-> parent, status |-> "timer",
     rival |-> \E k \in DOMAIN authCalls :
                  /\ authCalls[k].op = "register" /\ authCalls[k].status = "timer"
                  /\ authCalls[k].email = email,
     inQuiet |-> quiet]

\* the calls in flight when a register, login or loginWithGoogle call is
\* made: no call was made in the quiet period that starts next
EndQuiet(calls) == [k \in DOMAIN calls |-> [calls[k] EXCEPT !.inQuiet = FALSE]]

\* the callbacks whose delay has run out; the one scheduled first runs first
Due == { k \in DOMAIN authCalls : authCalls[k].status = "timer" /\ authCalls[k].left = 0 }

NextDue(k) == k \in Due /\ \A j \in Due : k <= j

Without(calls, k) == SubSeq(calls, 1, k - 1) \o SubSeq(calls, k + 1, Len(calls))

\* what is kept of a settled call
Settlement(c, status, value) ==
    [op |-> c.op, email |-> c.email, status |-> status, value |-> value,
     rival |-> c.rival, inQuiet |-> c.inQuiet /\ quiet]

ParentIndex(k) == CHOOSE p \in DOMAIN authCalls : authCalls[p].id = authCalls[k].parent

\* the pending calls once call k settled; the then/catch handlers that
\* loginWithGoogle put on the call it made run with it
PendingAfter(k, status) ==
    IF authCalls[k].parent = 0 THEN Without(authCalls, k)
    ELSE IF authCalls[k].op = "register"
    THEN IF status = "resolved" THEN Without(Without(authCalls, k), ParentIndex(k))
         ELSE Append(EndQuiet(Without(authCalls, k)),
                     [AuthCall("login", 0, authCalls[k].email, "", 0, LoginDelay,
                               authCalls[k].parent) EXCEPT !.inQuiet = FALSE])
    ELSE IF status = "rejected" THEN Without(Without(authCalls, k), ParentIndex(k))
         ELSE Without(authCalls, k)

\* the call that settled last: the loginWithGoogle call when the call it
\* made settles it
SettledAfter(k, status, value) ==
    IF authCalls[k].parent # 0 /\
       ((authCalls[k].op = "register") <=> (status = "resolved"))
    THEN Settlement(authCalls[ParentIndex(k)], status, value)
    ELSE Settlement(authCalls[k], status, value)

CallFromOutside(c) ==
    /\ issued < MaxAuthCalls
    /\ issued' = issued + 1
    /\ authCalls' = IF c.op \in {"register", "login", "loginWithGoogle"}
                    THEN Append(EndQuiet(authCalls), [c EXCEPT !.inQuiet = FALSE])
                    ELSE Append(authCalls, c)

CallRegister(email, password) ==
    /\ CallFromOutside(AuthCall("register", 0, email, password, 0, RegisterDelay, 0))
    /\ quiet' = FALSE
    /\ UNCHANGED <<users, session, settled, vvars, avars, svars, xvars>>

CallLogin(email, password) ==
    /\ CallFromOutside(AuthCall("login", 0, email, password, 0, LoginDelay, 0))
    /\ quiet' = FALSE
    /\ UNCHANGED <<users, session, settled, vvars, avars, svars, xvars>>

CallLoginWithGoogle ==
    /\ CallFromOutside(AuthCall("loginWithGoogle", issued + 1, "", "", 0,
                                LoginWithGoogleDelay, 0))
    /\ quiet' = FALSE
    /\ UNCHANGED <<users, session, settled, vvars, avars, svars, xvars>>

CallLogout ==
    /\ CallFromOutside(AuthCall("logout", 0, "", "", 0, LogoutDelay, 0))
    /\ UNCHANGED <<users, session, settled, quiet, vvars, avars, svars, xvars>>

CallGetCurrentUser ==
    /\ CallFromOutside(AuthCall("getCurrentUser", 0, "", "", 0,
                                GetCurrentUserDelay, 0))
    /\ UNCHANGED <<users, session, settled, quiet, vvars, avars, svars, xvars>>

CallUpdateUser(userId) ==
    /\ CallFromOutside(AuthCall("updateUser", 0, "", "", userId, UpdateUserDelay, 0))
    /\ UNCHANGED <<users, session, settled, quiet, vvars, avars, svars, xvars>>

\* incrementAnalysisCount has no await: it runs to its end when it is called
IncrementAnalysisCount(userId) ==
    /\ \A k \in DOMAIN users : users[k].analysisCount < MaxAnalysisCount
    /\ settled' = Settlement(AuthCall("incrementAnalysisCount", 0, "", "",
                                      userId, 0, 0), "resolved", Null)
    /\ \E userIndex \in {userIndexOf(userId)} :
        IF userIndex # 0
        THEN /\ users' = [users EXCEPT ![userIndex].analysisCount = @ + 1]
             /\ session' = withoutPassword(users'[userIndex])
        ELSE UNCHANGED <<users, session>>
    /\ UNCHANGED <<authCalls, issued, quiet, vvars, avars, svars, xvars>>

\* time passes by one step: no callback is due
Elapse ==
    /\ \E k \in DOMAIN authCalls : authCalls[k].status = "timer"
    /\ Due = {}
    /\ authCalls' = [k \in DOMAIN authCalls |->
            IF authCalls[k].status = "timer"
            THEN [authCalls[k] EXCEPT !.left = @ - TickMs] ELSE authCalls[k]]
    /\ UNCHANGED <<users, session, settled, issued, quiet, vvars, avars, svars, xvars>>

\* the callback of register without the test for a stored user
RegisterTimeout_NoCheck(k) ==
    /\ NextDue(k)
    /\ authCalls[k].op = "register"
    /\ \E user \in {newUser(authCalls[k].email, authCalls[k].password, "Test User")} :
        /\ users' = Append(users, user)
        /\ session' = withoutPassword(user)
        /\ authCalls' = PendingAfter(k, "resolved")
        /\ settled' = SettledAfter(k, "resolved", withoutPassword(user))
        /\ UNCHANGED quiet
    /\ UNCHANGED <<issued, vvars, avars, svars, xvars>>

\* the callback of register
RegisterTimeout(k) ==
    /\ NextDue(k)
    /\ authCalls[k].op = "register"
    /\ IF emailStored(authCalls[k].email)
       THEN /\ authCalls' = PendingAfter(k, "rejected")
            /\ settled' = SettledAfter(k, "rejected", MsgUserExists)
            /\ quiet' = IF authCalls[k].parent # 0 THEN FALSE ELSE quiet
            /\ UNCHANGED <<users, session>>
       ELSE \E user \in {newUser(authCalls[k].email, authCalls[k].password, "Test User")} :
            /\ users' = Append(users, user)
            /\ session' = withoutPassword(user)
            /\ authCalls' = PendingAfter(k, "resolved")
            /\ settled' = SettledAfter(k, "resolved", withoutPassword(user))
            /\ UNCHANGED quiet
    /\ UNCHANGED <<issued, vvars, avars, svars, xvars>>

\* the callback of login
LoginTimeout(k) ==
    /\ NextDue(k)
    /\ authCalls[k].op = "login"
    /\ \E found \in {loginIndexOf(authCalls[k].email, authCalls[k].password)} :
        IF found = 0
        THEN /\ authCalls' = PendingAfter(k, "rejected")
             /\ settled' = SettledAfter(k, "rejected", MsgInvalidLogin)
             /\ UNCHANGED session
        ELSE /\ session' = withoutPassword(users[found])
             /\ authCalls' = PendingAfter(k, "resolved")
             /\ settled' = SettledAfter(k, "resolved", withoutPassword(users[found]))
    /\ UNCHANGED <<users, issued, quiet, vvars, avars, svars, xvars>>

\* the callback of logout
LogoutTimeout(k) ==
    /\ NextDue(k)
    /\ authCalls[k].op = "logout"
    /\ session' = Null
    /\ authCalls' = Without(authCalls, k)
    /\ settled' = Settlement(authCalls[k], "resolved", Null)
    /\ quiet' = TRUE
    /\ UNCHANGED <<users, issued, vvars, avars, svars, xvars>>

\* the callback of getCurrentUser
GetCurrentUserTimeout(k) ==
    /\ NextDue(k)
    /\ authCalls[k].op = "getCurrentUser"
    /\ authCalls' = Without(authCalls, k)
    /\ settled' = Settlement(authCalls[k], "resolved", session)
    /\ UNCHANGED <<users, session, issued, quiet, vvars, avars, svars, xvars>>

\* the callback of updateUser, with updates = { name: 'Renamed' }
UpdateUserTimeout(k) ==
    /\ NextDue(k)
    /\ authCalls[k].op = "updateUser"
    /\ \E userIndex \in {userIndexOf(authCalls[k].userId)} :
        IF userIndex = 0
        THEN /\ settled' = Settlement(authCalls[k], "rejected", MsgUserNotFound)
             /\ UNCHANGED <<users, session>>
        ELSE /\ users' = [users EXCEPT ![userIndex].name = "Renamed"]
             /\ session' = withoutPassword(users'[userIndex])
             /\ settled' = Settlement(authCalls[k], "resolved", session')
    /\ authCalls' = Without(authCalls, k)
    /\ UNCHANGED <<issued, quiet, vvars, avars, svars, xvars>>

\* the callback of loginWithGoogle: it calls register and waits for it
LoginWithGoogleTimeout(k, mockEmail) ==
    /\ NextDue(k)
    /\ authCalls[k].op = "loginWithGoogle"
    /\ authCalls' = Append(
            EndQuiet([authCalls EXCEPT ![k].status = "waiting", ![k].email = mockEmail]),
            [AuthCall("register", 0, mockEmail, "uuid", 0, RegisterDelay, authCalls[k].id)
                EXCEPT !.inQuiet = FALSE])
    /\ quiet' = FALSE
    /\ UNCHANGED <<users, session, settled, issued, vvars, avars, svars, xvars>>

AuthIdle ==
    /\ users = <<>>
    /\ session = Null
    /\ authCalls = <<>>
    /\ settled = Null
    /\ issued = 0
    /\ quiet = FALSE

---------------------------------------------------------------------------
(* analysisStore: the zustand store of the results                         *)

HistoryLimit == 100

MaxHistory == 3

MaxAnalyses == 2

ResultIds == { "1", "2", "3" }

\* results as the tests build them; two of them share the id '1'
MockResults ==
    { [id |-> "1", country |-> "Germany", confidence |-> 80],
      [id |-> "1", country |-> "France", confidence |-> 70],
      [id |-> "2", country |-> "UK", confidence |-> 90] }

\* the result analyzeImage builds: crypto.randomUUID() is an id no result has
NewResults == { [id |-> "uuid", country |-> "Germany", confidence |-> 85] }

\* error.message of the error analyzeImage caught
StoreErrors == { [message |-> "Analysis failed"] }

StoreOp(op, id) == [op |-> op, id |-> id]

\* a history of n results added before the behaviour starts, the newest
\* first; the k-th is told from the others by its confidence
EarlierHistory(n) == [k \in 1..n |-> [id |-> "old", country |-> "Germany", confidence |-> k]]

\* the number of entries of the history added since the behaviour started
AddedSince(h) == Cardinality({ k \in DOMAIN h : h[k].id # "old" })

\* the new result takes the place of the newest entry of a full history
Prepended_ReplacesNewest(result) ==
    IF Len(history) >= HistoryLimit THEN <<result>> \o Tail(history)
    ELSE <<result>> \o history

\* [result, ...state.history].slice(0, 100)
Prepended(result) == Slice0(<<result>> \o history, HistoryLimit)

\* deleteResult that removes only the first entry with the id
deleteResult_FirstOnly(id) ==
    /\ history' =
          IF \E k \in DOMAIN history : history[k].id = id
          THEN Without(history, CHOOSE k \in DOMAIN history :
                  history[k].id = id /\ \A j \in 1..(k - 1) : history[j].id # id)
          ELSE history
    /\ currentResult' = IF currentResult # Null /\ currentResult.id = id
                        THEN Null ELSE currentResult
    /\ storeOp' = StoreOp("deleteResult", id)
    /\ UNCHANGED <<storeError, isAnalyzing, analyses, vvars, avars, uvars, xvars>>

deleteResult(id) ==
    /\ history' = SelectSeq(history, LAMBDA h : h.id # id)
    /\ currentResult' = IF currentResult # Null /\ currentResult.id = id
                        THEN Null ELSE currentResult
    /\ storeOp' = StoreOp("deleteResult", id)
    /\ UNCHANGED <<storeError, isAnalyzing, analyses, vvars, avars, uvars, xvars>>

setCurrentResult(result) ==
    /\ currentResult' = result
    /\ storeOp' = StoreOp("setCurrentResult", "")
    /\ UNCHANGED <<history, storeError, isAnalyzing, analyses, vvars, avars, uvars, xvars>>

addToHistory(result) ==
    /\ AddedSince(history) < MaxHistory
    /\ history' = Prepended(result)
    /\ storeOp' = StoreOp("addToHistory", result.id)
    /\ UNCHANGED <<currentResult, storeError, isAnalyzing, analyses, vvars, avars, uvars, xvars>>

clearHistory ==
    /\ history' = <<>>
    /\ currentResult' = Null
    /\ storeOp' = StoreOp("clearHistory", "")
    /\ UNCHANGED <<storeError, isAnalyzing, analyses, vvars, avars, uvars, xvars>>

clearError ==
    /\ storeError' = Null
    /\ storeOp' = StoreOp("clearError", "")
    /\ UNCHANGED <<history, currentResult, isAnalyzing, analyses, vvars, avars, uvars, xvars>>

\* analyzeImage of the store up to its first await; analyzeImageWithValidation
\* has the same three set() calls, so the three actions stand for both
StoreAnalyzeBegins ==
    /\ analyses < MaxAnalyses
    /\ analyses' = analyses + 1
    /\ isAnalyzing' = TRUE
    /\ storeError' = Null
    /\ storeOp' = StoreOp("analyzeImage", "")
    /\ UNCHANGED <<history, currentResult, vvars, avars, uvars, xvars>>

\* analyzeImage of the store after its last await
StoreAnalyzeSucceeds(result) ==
    /\ analyses > 0
    /\ AddedSince(history) < MaxHistory
    /\ \A k \in DOMAIN history : history[k].id # result.id
    /\ analyses' = analyses - 1
    /\ currentResult' = result
    /\ history' = Prepended(result)
    /\ isAnalyzing' = FALSE
    /\ storeOp' = StoreOp("analyzeImage", result.id)
    /\ UNCHANGED <<storeError, vvars, avars, uvars, xvars>>

\* a catch block that also clears the result on display
StoreAnalyzeFails_ClearsCurrent(message) ==
    /\ analyses > 0
    /\ analyses' = analyses - 1
    /\ storeError' = message
    /\ isAnalyzing' = FALSE
    /\ currentResult' = Null
    /\ storeOp' = [op |-> "analyzeImage", id |-> "", thrown |-> message]
    /\ UNCHANGED <<history, vvars, avars, uvars, xvars>>

\* the catch block of analyzeImage of the store: the awaited call rejected
\* with an error of that message, which is thrown again
StoreAnalyzeFails(message) ==
    /\ analyses > 0
    /\ analyses' = analyses - 1
    /\ storeError' = message
    /\ isAnalyzing' = FALSE
    /\ storeOp' = [op |-> "analyzeImage", id |-> "", thrown |-> message]
    /\ UNCHANGED <<history, currentResult, vvars, avars, uvars, xvars>>

StoreIdle ==
    /\ history = <<>>
    /\ currentResult = Null
    /\ storeError = Null
    /\ isAnalyzing = FALSE
    /\ analyses = 0
    /\ storeOp = StoreOp("create", "")

---------------------------------------------------------------------------
(* agentService: tasks and the executeBatchAnalysis loop, with the         *)
(* executeTask and cancelTask actions of useAgentStore                      *)

MaxTasks == 2

MaxImages == 2

MaxRuns == 2

TaskIds == 1..MaxTasks

MsgCancelled == "Cancelled by user"

MsgAnalysisFailed == "Analysis failed"

\* createTask: the new AgentTask; images and results are the lengths of the
\* two arrays
newTask(id, images) ==
    [id |-> id, status |-> "pending", progress |-> 0, images |-> images,
     results |-> 0, error |-> Null]

\* an executeBatchAnalysis call that has settled: its locals are gone
SettledRun(taskId, pc) ==
    [taskId |-> taskId, i |-> 0, totalImages |-> 0, results |-> 0, pc |-> pc]

\* updateTask: Object.assign(task, updates) when the task is in the map
updateTask(taskId, updates) ==
    IF taskId \in DOMAIN tasks
    THEN [tasks EXCEPT ![taskId] =
            [k \in DOMAIN @ |-> IF k \in DOMAIN updates THEN updates[k] ELSE @[k]]]
    ELSE tasks

\* Math.round(((i + 1) / totalImages) * 100)
progressAt(i, totalImages) == (200 * (i + 1) + totalImages) \div (2 * totalImages)

\* createTask(type, images) of the store and of the service
CreateTask(images) ==
    /\ created < MaxTasks
    /\ created' = created + 1
    /\ tasks' = [id \in DOMAIN tasks \cup {created + 1} |->
                    IF id = created + 1 THEN newTask(id, images) ELSE tasks[id]]
    /\ UNCHANGED <<runs, cancelled, isProcessing, vvars, avars, uvars, svars, pvars>>

\* executeTask of the store calls executeBatchAnalysis, which runs up to the
\* await of the first analysis; totalImages is read once
ExecuteTask(taskId) ==
    /\ Len(runs) < MaxRuns
    /\ taskId \in DOMAIN tasks
    /\ tasks[taskId].images > 0
    /\ tasks' = updateTask(taskId,
                    [status |-> "running", progress |-> progressAt(0, tasks[taskId].images)])
    /\ runs' = Append(runs, [taskId |-> taskId, i |-> 0, totalImages |-> tasks[taskId].images,
                              results |-> 0, pc |-> "analysis"])
    /\ isProcessing' = TRUE
    /\ UNCHANGED <<created, cancelled, vvars, avars, uvars, svars, pvars>>

\* executeBatchAnalysis throws 'Task not found' before the try block; the
\* finally block of executeTask runs
ExecuteUnknownTask(taskId) ==
    /\ taskId \notin DOMAIN tasks
    /\ isProcessing' = FALSE
    /\ UNCHANGED <<tasks, created, runs, cancelled, vvars, avars, uvars, svars, pvars>>

\* the awaited analysis of image i resolves; kept is whether its confidence
\* reaches config.confidence. After the last image the task is completed.
AnalysisResolves(k, kept) ==
    /\ k \in DOMAIN runs
    /\ runs[k].pc = "analysis"
    /\ \E results \in {IF kept THEN runs[k].results + 1 ELSE runs[k].results} :
        IF runs[k].i < runs[k].totalImages - 1
        THEN /\ runs' = [runs EXCEPT ![k] = [@ EXCEPT !.results = results, !.pc = "delay"]]
             /\ UNCHANGED <<tasks, isProcessing>>
        ELSE /\ runs' = [runs EXCEPT ![k] = SettledRun(runs[k].taskId, "resolved")]
             /\ tasks' = updateTask(runs[k].taskId,
                            [status |-> "completed", progress |-> 100, results |-> results])
             /\ isProcessing' = FALSE
    /\ UNCHANGED <<created, cancelled, vvars, avars, uvars, svars, pvars>>

\* the awaited analysis rejects: the catch block marks the task failed and
\* rethrows
AnalysisRejects(k) ==
    /\ k \in DOMAIN runs
    /\ runs[k].pc = "analysis"
    /\ runs' = [runs EXCEPT ![k] = SettledRun(runs[k].taskId, "rejected")]
    /\ tasks' = updateTask(runs[k].taskId, [status |-> "failed", error |-> MsgAnalysisFailed])
    /\ isProcessing' = FALSE
    /\ UNCHANGED <<created, cancelled, vvars, avars, uvars, svars, pvars>>

\* the 500 ms delay between two images ends; the next iteration runs up to
\* its await
DelayEnds(k) ==
    /\ k \in DOMAIN runs
    /\ runs[k].pc = "delay"
    /\ runs' = [runs EXCEPT ![k] = [@ EXCEPT !.i = @ + 1, !.pc = "analysis"]]
    /\ tasks' = updateTask(runs[k].taskId,
                    [progress |-> progressAt(runs[k].i + 1, runs[k].totalImages)])
    /\ UNCHANGED <<created, cancelled, isProcessing, vvars, avars, uvars, svars, pvars>>

\* cancelTask of the store: agentService.cancelTask, then isProcessing false
CancelTask(taskId) ==
    /\ IF taskId \in DOMAIN tasks /\ tasks[taskId].status = "running"
       THEN /\ tasks' = updateTask(taskId, [status |-> "failed", error |-> MsgCancelled])
            /\ cancelled' = cancelled \cup {taskId}
       ELSE UNCHANGED <<tasks, cancelled>>
    /\ isProcessing' = FALSE
    /\ UNCHANGED <<created, runs, vvars, avars, uvars, svars, pvars>>

\* clearCompletedTasks: the completed and failed tasks leave the map
ClearCompletedTasks ==
    /\ \E id \in DOMAIN tasks : tasks[id].status \in {"completed", "failed"}
    /\ tasks' = [id \in { j \in DOMAIN tasks : tasks[j].status \notin {"completed", "failed"} }
                    |-> tasks[id]]
    /\ UNCHANGED <<created, runs, cancelled, isProcessing, vvars, avars, uvars, svars, pvars>>

AgentIdle ==
    /\ tasks = <<>>
    /\ created = 0
    /\ runs = <<>>
    /\ cancelled = {}
    /\ isProcessing = FALSE

\* the rules are not being applied one by one
PermuteIdle ==
    /\ applied = {}
    /\ running = 0

RestIdle == PermuteIdle /\ AgentIdle

NoCall == [kind |-> "none"]

AnalyzeIdle ==
    /\ cache = <<>>
    /\ now = 0
    /\ req = [r \in Requests |-> IdleRequest]
    /\ modelCalls = 0

Init ==
    /\ AnalyzeIdle
    /\ RestIdle
    /\ AuthIdle
    /\ StoreIdle
    /\ apiKey \in BOOLEAN
    /\ call = NoCall
    /\ outcome = NoOutcome
    /\ prior = NoOutcome
    /\ added = "none"

Next ==
    \/ \E r \in Requests, imageBase64 \in Images : AnalyzeStart(r, imageBase64)
    \/ \E r \in Requests, text \in ReplyTexts : ModelReplies(r, text)
    \/ \E r \in Requests, error \in ModelErrors : ModelFails(r, error)
    \/ Tick

Spec == Init /\ [][Next]_vars

---------------------------------------------------------------------------
(* Specification of the validator: the inputs are drawn by Init, the       *)
(* actions apply validateAnalysis.                                         *)

ValidateInit ==
    /\ AnalyzeIdle
    /\ RestIdle
    /\ AuthIdle
    /\ StoreIdle
    /\ apiKey = TRUE
    /\ call \in Calls
    /\ outcome = NoOutcome
    /\ prior = NoOutcome
    /\ added = "none"

Validate ==
    /\ outcome = NoOutcome
    /\ \E rawText \in {RawTextOf(call)} :
         outcome' = validateAnalysis(call.response, rawText)
    /\ UNCHANGED <<call, prior, added, avars, uvars, svars, xvars>>

\* the same reply with one more hedging word is validated again
ValidateHedged ==
    /\ outcome.kind \in {"return", "throw"}
    /\ prior = NoOutcome
    /\ \E place \in AddedPlaces :
        /\ place = "reasoning" => Has(call.response, "reasoning")
        /\ call' = WithHedge(call, AddedWord, place)
        /\ \E rawText \in {RawTextOf(call')} :
             outcome' = validateAnalysis(call'.response, rawText)
        /\ added' = place
    /\ prior' = outcome
    /\ UNCHANGED <<avars, uvars, svars, xvars>>

ValidateNext == Validate \/ ValidateHedged

ValidateSpec == ValidateInit /\ [][ValidateNext]_vars

\* localStorage outlives the page: a fresh service finds the stored state
AuthInit ==
    /\ AnalyzeIdle
    /\ RestIdle
    /\ apiKey = TRUE
    /\ call = [kind |-> "none"]
    /\ outcome = [kind |-> "none"]
    /\ prior = [kind |-> "none"]
    /\ added = "none"
    /\ users \in { <<>>, <<StoredUser>> }
    /\ session \in { Null } \cup { withoutPassword(users[k]) : k \in DOMAIN users }
    /\ authCalls = <<>>
    /\ settled = Null
    /\ issued = 0
    /\ quiet = FALSE
    /\ StoreIdle

AuthNext ==
    \/ \E email \in Emails : CallRegister(email, "password123")
    \/ \E password \in Passwords : CallLogin("test@example.com", password)
    \/ CallLoginWithGoogle
    \/ CallLogout
    \/ CallGetCurrentUser
    \/ \E userId \in UserIds : CallUpdateUser(userId)
    \/ \E userId \in UserIds : IncrementAnalysisCount(userId)
    \/ Elapse
    \/ \E k \in DOMAIN authCalls : RegisterTimeout(k)
    \/ \E k \in DOMAIN authCalls : LoginTimeout(k)
    \/ \E k \in DOMAIN authCalls : LogoutTimeout(k)
    \/ \E k \in DOMAIN authCalls : GetCurrentUserTimeout(k)
    \/ \E k \in DOMAIN authCalls : UpdateUserTimeout(k)
    \/ \E k \in DOMAIN authCalls, mockEmail \in GoogleEmails :
            LoginWithGoogleTimeout(k, mockEmail)

AuthSpec == AuthInit /\ [][AuthNext]_vars

StoreInit ==
    /\ AnalyzeIdle
    /\ RestIdle
    /\ AuthIdle
    /\ StoreIdle
    /\ apiKey = TRUE
    /\ call = NoCall
    /\ outcome = NoOutcome
    /\ prior = NoOutcome
    /\ added = "none"

StoreNext ==
    \/ \E id \in ResultIds : deleteResult(id)
    \/ \E result \in MockResults \cup {Null} : setCurrentResult(result)
    \/ \E result \in MockResults : addToHistory(result)
    \/ clearHistory
    \/ clearError
    \/ StoreAnalyzeBegins
    \/ \E result \in NewResults : StoreAnalyzeSucceeds(result)
    \/ \E message \in StoreErrors : StoreAnalyzeFails(message)

StoreSpec == StoreInit /\ [][StoreNext]_vars

\* the store once 99 or 100 results have been added to the history
FullStoreInit ==
    /\ AnalyzeIdle
    /\ RestIdle
    /\ AuthIdle
    /\ apiKey = TRUE
    /\ call = NoCall
    /\ outcome = NoOutcome
    /\ prior = NoOutcome
    /\ added = "none"
    /\ history \in { EarlierHistory(HistoryLimit - 1), EarlierHistory(HistoryLimit) }
    /\ currentResult = Null
    /\ storeError = Null
    /\ isAnalyzing = FALSE
    /\ analyses = 0
    /\ storeOp = StoreOp("create", "")

FullStoreSpec == FullStoreInit /\ [][StoreNext]_vars

\* agentService after construction
AgentInit ==
    /\ AnalyzeIdle
    /\ AuthIdle
    /\ StoreIdle
    /\ PermuteIdle
    /\ AgentIdle
    /\ apiKey = TRUE
    /\ call = NoCall
    /\ outcome = NoOutcome
    /\ prior = NoOutcome
    /\ added = "none"

AgentNext ==
    \/ \E images \in 1..MaxImages : CreateTask(images)
    \/ \E taskId \in TaskIds : ExecuteTask(taskId)
    \/ \E taskId \in TaskIds : ExecuteUnknownTask(taskId)
    \/ \E k \in 1..MaxRuns, kept \in BOOLEAN : AnalysisResolves(k, kept)
    \/ \E k \in 1..MaxRuns : AnalysisRejects(k)
    \/ \E k \in 1..MaxRuns : DelayEnds(k)
    \/ \E taskId \in TaskIds : CancelTask(taskId)
    \/ ClearCompletedTasks

AgentSpec == AgentInit /\ [][AgentNext]_vars

\* The clamp rules of validateAnalysis applied one by one in any order, after
\* the uncertainty penalty and before the final score. A rule is one numbered
\* rule of the list: rule 6 is both clue-count clamps.
ClampRules == 2..9

ruleSteps(rule) ==
    CASE rule = 2 -> <<2>>
      [] rule = 3 -> <<3>>
      [] rule = 4 -> <<4>>
      [] rule = 5 -> <<5>>
      [] rule = 6 -> <<6, 7>>
      [] rule = 7 -> <<8>>
      [] rule = 8 -> <<9>>
      [] rule = 9 -> <<10>>

\* the running confidence after the statement groups of the rule
applyRule(rule, confidence, t) ==
    Let(runSteps_from(ruleSteps(rule), [confidence |-> confidence, reasons |-> <<>>], t),
        LAMBDA s : s.confidence)

PermuteResponses ==
    { Response(p, xy, c, d, cl, r, {}) :
        p \in { [city |-> <<"B","e","r","l","i","n">>, country |-> <<"G","e","r","m","a","n","y">>],
                [city |-> <<"U","n","k","n","o","w","n">>, country |-> <<"G","e","r","m","a","n","y">>] },
        xy \in Coordinates,
        c \in { Pct(84) + 5, Pct(-5) },
        d \in Descriptions,
        cl \in { <<>>, <<<<"c","l","u","e","1">>>>, <<ClueSign, ClueLogo>>,
                 <<<<"B","r","i","c","k"," ","A","r","c","h","i","t","e","c","t","u","r","e">>, <<"d","e","n","s","e"," ","v","e","g","e","t","a","t","i","o","n">>>> },
        r \in Reasonings }

PermuteCalls == { [response |-> r, prose |-> Prose(1)] : r \in PermuteResponses }

PermuteInit ==
    /\ AnalyzeIdle
    /\ AuthIdle
    /\ StoreIdle
    /\ PermuteIdle
    /\ AgentIdle
    /\ apiKey = TRUE
    /\ call \in PermuteCalls
    /\ outcome = NoOutcome
    /\ prior = NoOutcome
    /\ added = "none"

\* validateAnalysis runs in the listed order; the one-by-one run starts from
\* the confidence the uncertainty penalty leaves
PermuteBegin ==
    /\ outcome = NoOutcome
    /\ \E rawText \in {RawTextOf(call)} :
         /\ outcome' = validateAnalysis(call.response, rawText)
         /\ running' = uncertaintyRule(
                [confidence |-> call.response.location.confidence, reasons |-> <<>>],
                uncertaintyCountOf(rawText)).confidence
    /\ applied' = {}
    /\ UNCHANGED <<call, prior, added, avars, uvars, svars, gvars>>

ApplyRule(rule) ==
    /\ outcome.kind = "return"
    /\ rule \notin applied
    /\ running' = applyRule(rule, running, stepInputs(call.response, <<>>))
    /\ applied' = applied \cup {rule}
    /\ UNCHANGED <<vvars, avars, uvars, svars, gvars>>

PermuteNext == PermuteBegin \/ \E rule \in ClampRules : ApplyRule(rule)

PermuteSpec == PermuteInit /\ [][PermuteNext]_vars

\* The validator on clue lists in which one clue holds two Tier-2 keywords,
\* two clues hold the same Tier-2 keyword, or a clue holds a Tier-1 keyword
TierClueLists ==
    { <<>>,
      <<<<"c","l","u","e","1">>, <<"c","l","u","e","2">>>>,
      <<<<"c","l","u","e","1">>, <<"T","r","a","f","f","i","c"," ","s","i","g","n","s">>>>,
      <<<<"B","r","i","c","k"," ","A","r","c","h","i","t","e","c","t","u","r","e">>, <<"d","e","n","s","e"," ","v","e","g","e","t","a","t","i","o","n">>>>,
      <<<<"B","r","i","c","k"," ","a","r","c","h","i","t","e","c","t","u","r","e"," ","a","n","d"," ","d","e","n","s","e"," ","v","e","g","e","t","a","t","i","o","n">>, <<"c","l","u","e","1">>>>,
      <<<<"B","r","i","c","k"," ","a","r","c","h","i","t","e","c","t","u","r","e">>, <<"M","o","d","e","r","n"," ","A","R","C","H","I","T","E","C","T","U","R","E">>>>,
      <<ClueSign, <<"B","r","i","c","k"," ","a","r","c","h","i","t","e","c","t","u","r","e">>>> }

TierResponses ==
    { Response([city |-> <<"B","e","r","l","i","n">>, country |-> <<"G","e","r","m","a","n","y">>], MoscowCoords, c,
               DescriptionA, cl, ReasoningA, {}) :
        c \in ReportedConfidences \cup { Pct(60) }, cl \in TierClueLists }

TierCalls == { [response |-> r, prose |-> Prose(n)] : r \in TierResponses, n \in 0..1 }

TierInit ==
    /\ AnalyzeIdle
    /\ RestIdle
    /\ AuthIdle
    /\ StoreIdle
    /\ apiKey = TRUE
    /\ call \in TierCalls
    /\ outcome = NoOutcome
    /\ prior = NoOutcome
    /\ added = "none"

TierSpec == TierInit /\ [][ValidateNext]_vars

\* The validator on a grid of coordinates: the edges of the four boxes, a
\* thousandth of a degree beyond them, points inside and points outside
WaterLats ==
    { Deg(-61), Deg(-60) - 1, Deg(-60), 0, Deg(30), Deg(30) + 1, 52520,
      Deg(60), Deg(60) + 1, Deg(70), Deg(70) + 1, Deg(90) }

WaterLngs ==
    { Deg(-180) - 1, Deg(-180), Deg(-160), Deg(-80) - 1, Deg(-80), 13405,
      Deg(20), Deg(20) + 1, Deg(120), Deg(120) + 1, Deg(180), Deg(180) + 1 }

WaterResponses ==
    { Response([city |-> <<"B","e","r","l","i","n">>, country |-> <<"G","e","r","m","a","n","y">>],
               [lat |-> lat, lng |-> lng], c, DescriptionA, cl, ReasoningA, {}) :
        lat \in WaterLats, lng \in WaterLngs, c \in ReportedConfidences,
        cl \in { <<ClueSign, ClueLogo>>, <<<<"c","l","u","e","1">>, <<"T","r","a","f","f","i","c"," ","s","i","g","n","s">>>> } }

WaterCalls == { [response |-> r, prose |-> Prose(0)] : r \in WaterResponses }

WaterInit ==
    /\ AnalyzeIdle
    /\ RestIdle
    /\ AuthIdle
    /\ StoreIdle
    /\ apiKey = TRUE
    /\ call \in WaterCalls
    /\ outcome = NoOutcome
    /\ prior = NoOutcome
    /\ added = "none"

\* isLikelyWater called on its own, as the tests call it
IsLikelyWaterCall ==
    /\ outcome = NoOutcome
    /\ outcome' = [kind |-> "boolean",
                   value |-> isLikelyWater(call.response.location.lat,
                                           call.response.location.lng)]
    /\ UNCHANGED <<call, prior, added, avars, uvars, svars, xvars>>

WaterNext == Validate \/ ValidateHedged \/ IsLikelyWaterCall

WaterSpec == WaterInit /\ [][WaterNext]_vars

\* The validator on raw texts that repeat a hedging word, write it in upper
\* case or hold it inside a longer word
HedgeSnippets ==
    { <<>>,
      <<"m","a","y","b","e",","," ","m","a","y","b","e","."," ">>,
      <<"I","t"," ","i","s"," ","U","N","L","I","K","E","L","Y","."," ">> }

HedgingResponses ==
    { Response([city |-> <<"B","e","r","l","i","n">>, country |-> <<"G","e","r","m","a","n","y">>], MoscowCoords, c,
               DescriptionA, <<ClueSign, ClueLogo>>, r, {}) :
        c \in ReportedConfidences, r \in Reasonings }

HedgingCalls ==
    { [response |-> r, prose |-> Prose(n) \o snippet] :
        r \in HedgingResponses, n \in 0..MaxProseHedges, snippet \in HedgeSnippets }

HedgingInit ==
    /\ AnalyzeIdle
    /\ RestIdle
    /\ AuthIdle
    /\ StoreIdle
    /\ apiKey = TRUE
    /\ call \in HedgingCalls
    /\ outcome = NoOutcome
    /\ prior = NoOutcome
    /\ added = "none"

HedgingSpec == HedgingInit /\ [][ValidateNext]_vars

---------------------------------------------------------------------------
(* The earlier validateAnalysis (the first GeminiService of the file)      *)

earlierUncertaintyWords == <<
    <<"m","a","y","b","e">>, <<"p","o","s","s","i","b","l","y">>, <<"m","i","g","h","t">>, <<"c","o","u","l","d"," ","b","e">>, <<"a","p","p","e","a","r","s"," ","t","o"," ","b","e">>,
    <<"s","e","e","m","s"," ","l","i","k","e">>, <<"p","r","o","b","a","b","l","y">> >>

highConfidenceIndicators == <<
    <<"s","t","r","e","e","t"," ","s","i","g","n">>, <<"l","i","c","e","n","s","e"," ","p","l","a","t","e">>, <<"s","t","o","r","e"," ","n","a","m","e">>, <<"l","a","n","d","m","a","r","k">>,
    <<"u","n","i","q","u","e"," ","a","r","c","h","i","t","e","c","t","u","r","e">>, <<"s","p","e","c","i","f","i","c"," ","l","a","n","g","u","a","g","e">>, <<"f","l","a","g">>, <<"c","o","o","r","d","i","n","a","t","e","s">> >>

MsgEarlierUncertainty == "Uncertainty detected in reasoning"

MsgEarlierNoIndicators == "No high-confidence indicators found"

MsgEarlierCoords == "Invalid coordinates"

MsgEarlierWater == "Location appears to be in water"

MsgEarlierFewClues == "Insufficient clues"

hasUncertainty(rawText) ==
    Let(ToLowerCase(rawText), LAMBDA lower :
        Some(earlierUncertaintyWords, LAMBDA word : Includes(lower, word)))

hasHighConfidenceIndicator(clues) ==
    indicatorCount(highConfidenceIndicators, clues) > 0

\* if (condition && confidence > cap) { Math.min; push }
GuardedClamp(s, condition, cap, msg) ==
    IF condition /\ s.confidence > cap THEN Clamp(s, cap, msg) ELSE s

\* if (condition) { Math.min; push }
PlainClamp(s, condition, cap, msg) ==
    IF condition THEN Clamp(s, cap, msg) ELSE s

\* the statements of the earlier validateAnalysis in program order
earlierRules(response, rawText) ==
    Let([confidence |-> response.location.confidence, reasons |-> <<>>], LAMBDA s0 :
    Let(GuardedClamp(s0, hasUncertainty(rawText), Pct(60), MsgEarlierUncertainty), LAMBDA s1 :
    Let(GuardedClamp(s1, ~hasHighConfidenceIndicator(response.analysis.clues), Pct(70),
                     MsgEarlierNoIndicators), LAMBDA s2 :
    Let(PlainClamp(s2, coordinatesOutOfRange(response.location.lat, response.location.lng),
                   Pct(30), MsgEarlierCoords), LAMBDA s3 :
    Let(PlainClamp(s3, isLikelyWater(response.location.lat, response.location.lng),
                   Pct(20), MsgEarlierWater), LAMBDA s4 :
        GuardedClamp(s4, Len(response.analysis.clues) < 2, Pct(50), MsgEarlierFewClues))))))

earlierValidateAnalysis(response, rawText) ==
    IF ~Has(response, "clues") THEN [kind |-> "throw", error |-> "TypeError"]
    ELSE Let(earlierRules(response, rawText), LAMBDA s :
        [kind |-> "return",
         isValid |-> s.confidence >= Pct(30),
         confidence |-> MathRound(s.confidence),
         reasons |-> s.reasons])

\* the inputs of the tests of the earlier validator, and around them
TestPlace == [city |-> <<"T","e","s","t"," ","C","i","t","y">>, country |-> <<"T","e","s","t"," ","C","o","u","n","t","r","y">>]

EarlierClueLists ==
    { <<>>, <<<<"o","n","l","y"," ","o","n","e"," ","c","l","u","e">>>>, <<<<"c","l","u","e","1">>, <<"c","l","u","e","2">>>>, <<ClueSign>>,
      <<ClueSign, ClueLogo>> }

EarlierReasonings == { <<"C","l","e","a","r"," ","i","n","d","i","c","a","t","o","r","s">>, <<"T","h","i","s"," ","m","i","g","h","t"," ","b","e"," ","t","h","e"," ","l","o","c","a","t","i","o","n">> }

EarlierResponses ==
    { Response(TestPlace, xy, c, <<"T","e","s","t"," ","d","e","s","c","r","i","p","t","i","o","n">>, cl, r, {}) :
        xy \in Coordinates, c \in ReportedConfidences \cup { Pct(80), Pct(90) },
        cl \in EarlierClueLists, r \in EarlierReasonings }

\* the raw text is empty, the reasoning (as in the tests) or the reply text
EarlierCalls ==
    { [response |-> r, rawText |-> <<>>] : r \in EarlierResponses } \cup
    UNION { { [response |-> r, rawText |-> r.analysis.reasoning],
              [response |-> r, rawText |-> Serialize(r)] } : r \in EarlierResponses }

EarlierInit ==
    /\ AnalyzeIdle
    /\ RestIdle
    /\ AuthIdle
    /\ StoreIdle
    /\ apiKey = TRUE
    /\ call \in EarlierCalls
    /\ outcome = NoOutcome
    /\ prior = NoOutcome
    /\ added = "none"

ValidateEarlier ==
    /\ outcome = NoOutcome
    /\ outcome' = earlierValidateAnalysis(call.response, call.rawText)
    /\ UNCHANGED <<call, prior, added, avars, uvars, svars, xvars>>

EarlierSpec == EarlierInit /\ [][ValidateEarlier]_vars

TypeOK == outcome.kind \in {"none", "return", "throw", "boolean"}

---------------------------------------------------------------------------
(* Claims about validateAnalysis (tiered variant), checked under           *)
(* ValidateSpec                                                            *)

Returned == outcome.kind = "return"

Reported == call.response.location.confidence

\* the running confidence before (k) and after (k + 1) step k
Before(k) == outcome.steps[k].confidence

After(k) == outcome.steps[k + 1].confidence

\* step k appended a reason
Recorded(k) == Len(outcome.steps[k + 1].reasons) > Len(outcome.steps[k].reasons)

\* C1: for every parsed response and raw text, whatever confidence the model
\* reported, the returned confidence is an integer in [0, 100].
C1_ConfidenceInRange ==
    Returned =>
        /\ IsInteger(outcome.confidence)
        /\ outcome.confidence >= Pct(0)
        /\ outcome.confidence <= Pct(100)

\* reached: a reported confidence above 100 was brought back to 100
C1_Witness ==
    /\ Returned
    /\ Reported = Pct(104)
    /\ outcome.confidence = Pct(100)

\* C2 as stated: for every integer reported confidence the running
\* confidence never increases over a step, the final normalisation included.
C2_NeverIncreases ==
    (Returned /\ IsInteger(Reported)) =>
        \A k \in 1..NumSteps : After(k) <= Before(k)

\* C2 amended: the same for every non-negative integer reported confidence.
C2_NeverIncreasesFromNonNegative ==
    (Returned /\ IsInteger(Reported) /\ Reported >= 0) =>
        /\ \A k \in 1..NumSteps : After(k) <= Before(k)
        /\ outcome.confidence <= Reported

\* reached: a non-negative report lowered by the penalty and by a later clamp
C2_Witness ==
    /\ Returned
    /\ Reported = Pct(85)
    /\ After(1) < Before(1)
    /\ \E k \in 2..NumSteps : After(k) < Before(k)

\* the text of Scenario A
ScenarioAText == <<"{","\"","l","o","c","a","t","i","o","n","\"",":","{","\"","c","i","t","y","\"",":","\"","B","e","r","l","i","n","\"",",","\"","c","o","u","n","t","r","y","\"",":","\"","G","e","r","m","a","n","y","\"",",","\"","l","a","t","\"",":","5","2",".","5","2",",","\"","l","n","g","\"",":","1","3",".","4","0","5",",","\"","c","o","n","f","i","d","e","n","c","e","\"",":","8","5","}",",","\"","a","n","a","l","y","s","i","s","\"",":","{","\"","d","e","s","c","r","i","p","t","i","o","n","\"",":","\"","u","r","b","a","n"," ","s","t","r","e","e","t"," ","s","c","e","n","e","\"",",","\"","c","l","u","e","s","\"",":","[","\"","B","u","n","d","e","s","g","a","s","s","e"," ","s","t","r","e","e","t"," ","s","i","g","n","\"",",","\"","D","e","u","t","s","c","h","e"," ","B","a","h","n"," ","l","o","g","o","\"","]",",","\"","r","e","a","s","o","n","i","n","g","\"",":","\"","C","l","e","a","r"," ","G","e","r","m","a","n"," ","s","i","g","n","a","g","e"," ","a","n","d"," ","t","r","a","n","s","i","t"," ","b","r","a","n","d","i","n","g"," ","o","b","s","e","r","v","e","d"," ","t","h","r","o","u","g","h","o","u","t"," ","t","h","e"," ","f","r","a","m","e"," ","c","o","n","f","i","r","m","i","n","g"," ","l","o","c","a","t","i","o","n"," ","p","r","e","c","i","s","e","l","y","\"","}","}">>

IsScenarioA ==
    /\ call.response = ScenarioA
    /\ RawTextOf(call) = ScenarioAText

\* C3: the Scenario A reply keeps its confidence of 85, records no reason
\* and is valid.
C3_ScenarioAUnchanged ==
    (Returned /\ IsScenarioA) =>
        /\ outcome.confidence = Pct(85)
        /\ outcome.reasons = <<>>
        /\ outcome.isValid = TRUE

OutOfRange ==
    coordinatesOutOfRange(call.response.location.lat, call.response.location.lng)

\* C4: with lat outside [-90, 90] or lng outside [-180, 180] the returned
\* confidence is at most 20 and isValid is false.
C4_OutOfRangeInvalid ==
    (Returned /\ OutOfRange) =>
        /\ outcome.confidence <= Pct(20)
        /\ outcome.isValid = FALSE

\* C5 as stated: a rule records its reason only if it lowered the running
\* confidence.
C5_ReasonOnlyIfLowered ==
    Returned => \A k \in 1..(NumSteps - 1) : Recorded(k) => After(k) < Before(k)

\* the condition of the rule of step k, for the rules that test the running
\* confidence in their condition (steps 2, 3, 8) and for those that do not
GuardedSteps == {2, 3, 8}

Condition(k) ==
    CASE k = 1  -> uncertaintyCountOf(RawTextOf(call)) > 0
      [] k = 4  -> OutOfRange
      [] k = 5  -> isLikelyWater(call.response.location.lat, call.response.location.lng)
      [] k = 6  -> Len(call.response.analysis.clues) < 2
      [] k = 7  -> Len(call.response.analysis.clues) < 1
      [] k = 9  -> markedUnknown(call.response.location)
      [] k = 10 -> Len(call.response.analysis.reasoning) < 50

\* C5 amended: the Tier-1 cap, the combined cap and the generic-description
\* rule record their reason only if they lowered the running confidence; each
\* other rule records its reason exactly when its condition holds, whether or
\* not the confidence changed.
C5_ReasonWhenConditionHolds ==
    Returned =>
        /\ \A k \in GuardedSteps : Recorded(k) => After(k) < Before(k)
        /\ \A k \in (1..(NumSteps - 1)) \ GuardedSteps : Recorded(k) <=> Condition(k)

\* reached: the water rule recorded its reason without changing a confidence
\* that was already below its cap
C5_Witness ==
    /\ Returned
    /\ Recorded(5)
    /\ After(5) = Before(5)

\* C6: isValid is true exactly when the returned confidence is at least 20.
C6_ValidIffAtLeast20 ==
    Returned => (outcome.isValid <=> outcome.confidence >= Pct(20))

\* reached: a returned confidence below 20 with isValid false
C6_Witness ==
    /\ Returned
    /\ outcome.confidence < Pct(20)
    /\ outcome.confidence > Pct(0)
    /\ outcome.isValid = FALSE

Compared == added # "none" /\ outcome.kind = "return" /\ prior.kind = "return"

C8_NeverThrows ==
    outcome # NoOutcome => outcome.kind = "return"

---------------------------------------------------------------------------
(* Claims about analyzeImage, checked under Spec                           *)

\* request r settled on a reply text of the model
Replied(r) == req[r].pc = "done" /\ req[r].via = "reply"

Malformed(text) ==
    /\ jsonMatch(text).found
    /\ ~JSONparse(jsonMatch(text).span).ok

\* C9: when a brace span is found but does not parse as JSON, analyzeImage
\* rejects with the same invalid-response-format error as when no span is
\* found.
C9_MalformedSameError ==
    \A r \in Requests :
        (Replied(r) /\ Malformed(req[r].text)) =>
            req[r].settled = Rejected(Error("Error", MsgInvalidFormat))

\* C10: when the reply has no '{' followed later by a '}', the call rejects
\* with the invalid-response-format error, validateAnalysis is not invoked
\* and the cache is not written.
C10_NoJsonRejected ==
    [][ \A r \in Requests :
          ( /\ req[r].pc = "awaiting"
            /\ req'[r].pc = "done"
            /\ req'[r].via = "reply"
            /\ ~jsonMatch(req'[r].text).found )
          => ( /\ req'[r].settled = Rejected(Error("Error", MsgInvalidFormat))
               /\ req'[r].validated = 0
               /\ req'[r].wrote = FALSE
               /\ cache' = cache ) ]_vars

\* reached: a reply with a '}' before its only '{' was rejected
C10_Witness ==
    \E r \in Requests :
        /\ Replied(r)
        /\ \E i \in DOMAIN req[r].text : req[r].text[i] = "{"
        /\ ~jsonMatch(req[r].text).found
        /\ req[r].settled.kind = "rejected"

---------------------------------------------------------------------------
(* Claims about the water rule, checked under WaterSpec                    *)

Lat == call.response.location.lat

Lng == call.response.location.lng

InBox(latMin, latMax, lngMin, lngMax) ==
    /\ Lat >= Deg(latMin) /\ Lat <= Deg(latMax)
    /\ Lng >= Deg(lngMin) /\ Lng <= Deg(lngMax)

\* the four oceanic boxes, edges included
InOceanBox ==
    \/ InBox(-60, 60, 120, 180)
    \/ InBox(-60, 60, -180, -80)
    \/ InBox(-60, 70, -80, 20)
    \/ InBox(-60, 30, 20, 120)

---------------------------------------------------------------------------
(* Claims about the uncertainty penalty, checked under HedgingSpec         *)

\* the positions of the lower-cased text at which the word starts
Positions(lower, word) ==
    { i \in 1..(Len(lower) - Len(word) + 1) :
        lower[i] = word[1] /\ SubSeq(lower, i, i + Len(word) - 1) = word }

\* for each entry of the vocabulary, how often it occurs in the raw text
HedgeOccurrences ==
    Let(ToLowerCase(RawTextOf(call)), LAMBDA lower :
        [k \in DOMAIN uncertaintyWords |->
            Cardinality(Positions(lower, uncertaintyWords[k]))])

RECURSIVE SumFrom(_, _)
SumFrom(f, k) == IF k > Len(f) THEN 0 ELSE f[k] + SumFrom(f, k + 1)

\* rule 1 with a count of n: nothing for n = 0, else the floored penalty
Penalised(n) ==
    IF n = 0 THEN After(1) = Before(1)
    ELSE After(1) = MathMax(Before(1) - MathMin(Pct(10) * n, Pct(40)), 0)

\* C12 as stated: a raw text in which hedging words occur n times in total,
\* repeats of the same word counted, is penalised by min(10 n, 40) points,
\* floored at 0.
C12_PenaltyByOccurrences ==
    Returned => Penalised(SumFrom(HedgeOccurrences, 1))

\* C12 amended: a raw text in which n distinct entries of the hedging
\* vocabulary occur (a repeated entry counted once) is penalised by
\* min(10 n, 40) points, floored at 0.
C12_PenaltyByDistinctEntries ==
    Returned =>
        Let(HedgeOccurrences, LAMBDA occ :
            Penalised(Cardinality({ k \in DOMAIN occ : occ[k] > 0 })))

\* reached: 'maybe' three times and no other entry, penalised by 10
C12_Witness ==
    /\ Returned
    /\ HedgeOccurrences = [k \in DOMAIN uncertaintyWords |-> IF k = 1 THEN 3 ELSE 0]
    /\ Reported = Pct(85)
    /\ After(1) = Pct(75)

\* C13: when the raw text holds at least 4 distinct entries of the hedging
\* vocabulary the penalty is exactly 40: the confidence after rule 1 is
\* max(reported - 40, 0).
C13_FourEntriesCost40 ==
    (Returned /\ Cardinality({ k \in DOMAIN uncertaintyWords :
                                HedgeOccurrences[k] > 0 }) >= 4) =>
        After(1) = MathMax(Reported - Pct(40), 0)

\* reached: five distinct entries, 85 lowered to 45
C13_Witness ==
    /\ Returned
    /\ Cardinality({ k \in DOMAIN uncertaintyWords : HedgeOccurrences[k] > 0 }) = 5
    /\ Reported = Pct(85)
    /\ After(1) = Pct(45)

\* C14: isLikelyWater is true for the mid-Pacific point (0, -160) and false
\* for Berlin (52.52, 13.405).
C14_PacificWaterBerlinLand ==
    outcome.kind = "boolean" =>
        /\ (Lat = 0 /\ Lng = Deg(-160)) => outcome.value = TRUE
        /\ (Lat = 52520 /\ Lng = 13405) => outcome.value = FALSE

\* the band of latitudes all four boxes reach, at any longitude
InTropicalBand ==
    /\ Lat >= Deg(-60) /\ Lat <= Deg(30)
    /\ Lng >= Deg(-180) /\ Lng <= Deg(180)

\* C25: for lat in [-60, 30] and lng in [-180, 180] isLikelyWater returns
\* true, and validateAnalysis returns confidence at most 15 and isValid
\* false.
C25_BandIsWater ==
    InTropicalBand =>
        /\ outcome.kind = "boolean" => outcome.value = TRUE
        /\ Returned => (outcome.confidence <= Pct(15) /\ outcome.isValid = FALSE)

\* reached: just east of the seam between the third and the fourth box, on
\* the northern edge of the band, 85 returned as 15
C25_Witness ==
    /\ Returned
    /\ Lat = Deg(30) /\ Lng = Deg(20) + 1
    /\ Reported = Pct(85)
    /\ outcome.confidence = Pct(15)
    /\ outcome.isValid = FALSE

---------------------------------------------------------------------------
(* Claims about the earlier validateAnalysis, checked under EarlierSpec    *)

\* C15: in the earlier validateAnalysis, whenever analysis.clues has fewer
\* than 2 entries the returned confidence is at most 50 and reasons contains
\* 'Insufficient clues'.
C15_FewCluesRecorded ==
    (Returned /\ Len(call.response.analysis.clues) < 2) =>
        /\ outcome.confidence <= Pct(50)
        /\ \E k \in DOMAIN outcome.reasons : outcome.reasons[k] = MsgEarlierFewClues

---------------------------------------------------------------------------
(* Claims about authService, checked under AuthSpec                        *)

\* C16: after logout resolves and until a later register, login or
\* loginWithGoogle call is made, getCurrentUser resolves to null, whatever
\* other operations complete in between.
C16_NullAfterLogout ==
    (settled # Null /\ settled.op = "getCurrentUser" /\ settled.inQuiet) =>
        settled.value = Null

\* the step is the callback of the register call k
RegisterSettles(k) ==
    /\ NextDue(k)
    /\ authCalls[k].op = "register"
    /\ issued' = issued
    /\ authCalls' # authCalls

\* C17: register rejects with 'User already exists with this email' whenever
\* a stored user has that email, also when two register calls for the same
\* email are in flight at once (one of them succeeds, no email is stored
\* twice); a rejected register leaves the stored users and the session
\* unchanged.
C17_DuplicateRegisterRejected ==
    [][ /\ \A k \in DOMAIN authCalls : RegisterSettles(k) =>
              IF emailStored(authCalls[k].email)
              THEN /\ settled'.op = "register"
                   /\ settled'.status = "rejected"
                   /\ settled'.value = MsgUserExists
                   /\ users' = users
                   /\ session' = session
              ELSE /\ settled'.status = "resolved"
                   /\ Len(users') = Len(users) + 1
                   /\ users'[Len(users')].email = authCalls[k].email
        /\ \A j, k \in DOMAIN users' : j # k => users'[j].email # users'[k].email
      ]_vars

\* reached: of two register calls for one email in flight at once the first
\* stored the user and the second was rejected
C17_Witness ==
    /\ settled # Null
    /\ settled.op = "register"
    /\ settled.rival
    /\ settled.status = "rejected"
    /\ settled.value = MsgUserExists
    /\ Len(users) = 1
    /\ users[1].email = settled.email
    /\ session = withoutPassword(users[1])

---------------------------------------------------------------------------
(* Claims about analysisStore, checked under StoreSpec                     *)

\* the entries of h whose id is not id, in their order
RECURSIVE OthersFrom(_, _, _)
OthersFrom(h, id, k) ==
    IF k > Len(h) THEN <<>>
    ELSE (IF h[k].id = id THEN <<>> ELSE <<h[k]>>) \o OthersFrom(h, id, k + 1)

\* C18: deleteResult(id) removes every history entry whose id equals id and
\* keeps the other entries in their order; it sets currentResult to null
\* exactly when currentResult's id equals id, and leaves currentResult
\* otherwise, error and isAnalyzing unchanged.
C18_DeleteResultFrame ==
    [][ \A id \in ResultIds : storeOp' = StoreOp("deleteResult", id) =>
          /\ history' = OthersFrom(history, id, 1)
          /\ IF currentResult # Null /\ currentResult.id = id
             THEN currentResult' = Null
             ELSE currentResult' = currentResult
          /\ storeError' = storeError
          /\ isAnalyzing' = isAnalyzing
      ]_vars

\* reached: deleteResult('1') has run on a history that held other entries;
\* no entry with the id is left, the error and the flag are still set
C18_Witness ==
    /\ storeOp = StoreOp("deleteResult", "1")
    /\ Len(history) = 2
    /\ \A k \in DOMAIN history : history[k].id # "1"
    /\ currentResult = Null
    /\ storeError # Null
    /\ analyses = 1

\* C27: isAnalyzing is true in every state in which an analyzeImage or
\* analyzeImageWithValidation call has started and not settled, also when
\* two calls overlap and one settles first.
C27_AnalyzingWhileInFlight == analyses > 0 => isAnalyzing = TRUE

\* an analyzeImage call of the store settles in this step without a result
FailsNow == analyses' = analyses - 1 /\ storeOp'.id = ""

\* C30: when analyzeImage of the store fails, the failing call leaves history
\* and currentResult as they were, sets error to the failure message and
\* isAnalyzing to false, and throws the error again.
C30_FailureLeavesResults ==
    [][ FailsNow =>
          /\ history' = history
          /\ currentResult' = currentResult
          /\ storeError' \in StoreErrors
          /\ isAnalyzing' = FALSE
          /\ "thrown" \in DOMAIN storeOp'
          /\ storeOp'.thrown = storeError' ]_vars

\* reached: a call failed while a result was on display and in the history;
\* both are still there and the error is set
C30_Witness ==
    /\ "thrown" \in DOMAIN storeOp
    /\ storeError = storeOp.thrown
    /\ isAnalyzing = FALSE
    /\ currentResult # Null
    /\ Len(history) = 2
    /\ analyses = 0

---------------------------------------------------------------------------
(* Claims about the history limit, checked under FullStoreSpec             *)

\* the step puts one result in front of the entries, which keep their order,
\* and drops the last entry if there are more than 100
AddsInFront ==
    /\ Len(history') = MathMin(Len(history) + 1, HistoryLimit)
    /\ Tail(history') = SubSeq(history, 1, Len(history') - 1)

\* the step removes the entries with one id and keeps the order of the rest
RemovesById == \E id \in ResultIds : history' = OthersFrom(history, id, 1)

\* C28: history holds at most 100 entries; every step that changes it puts
\* the new result first, ahead of the older entries in their order, dropping
\* the oldest (last) entry when the history was full, or removes entries
\* without reordering the rest, or empties it.
C28_HistoryNewestFirstAtMost100 ==
    [][ /\ Len(history') <= HistoryLimit
        /\ history' # history => (history' = <<>> \/ AddsInFront \/ RemovesById) ]_vars

\* reached: a result was added to a history of 100; it is first, and the
\* entry that was second to last is now last
C28_Witness ==
    /\ Len(history) = HistoryLimit
    /\ history[1].id # "old"
    /\ AddedSince(history) = 1
    /\ history[HistoryLimit] = EarlierHistory(HistoryLimit)[HistoryLimit - 1]

---------------------------------------------------------------------------
(* Claims about the indicator caps, checked under TierSpec                 *)

Clues == call.response.analysis.clues

ClueHolds(k, word) == Positions(ToLowerCase(Clues[k]), word) # {}

NoTier1Clue ==
    \A k \in DOMAIN Clues, w \in DOMAIN tier1Indicators : ~ClueHolds(k, tier1Indicators[w])

\* the clues that hold a Tier-2 keyword
Tier2Clues ==
    { k \in DOMAIN Clues : \E w \in DOMAIN tier2Indicators : ClueHolds(k, tier2Indicators[w]) }

\* the Tier-2 keywords that a clue holds
Tier2Keywords ==
    { w \in DOMAIN tier2Indicators : \E k \in DOMAIN Clues : ClueHolds(k, tier2Indicators[w]) }

\* rules 2 and 3 together cap the confidence rule 1 left
CappedAt(cap) == After(3) = MathMin(Before(2), Pct(cap))

\* C19 as stated: with no clue holding a Tier-1 keyword the running
\* confidence is capped at 50 exactly when fewer than 2 of the clues hold a
\* Tier-2 keyword, and at 70 when 2 or more clues hold one.
C19_CapsByClueCount ==
    (Returned /\ NoTier1Clue) =>
        IF Cardinality(Tier2Clues) < 2 THEN CappedAt(50) ELSE CappedAt(70)

\* C19 amended: with no clue holding a Tier-1 keyword the running confidence
\* is capped at 50 exactly when fewer than 2 of the Tier-2 keywords are held
\* by some clue, and at 70 when 2 or more of the keywords are.
C19_CapsByKeywordCount ==
    (Returned /\ NoTier1Clue) =>
        IF Cardinality(Tier2Keywords) < 2 THEN CappedAt(50) ELSE CappedAt(70)

\* reached: one clue holds two Tier-2 keywords and 85 is capped at 70, not 50
C19_Witness ==
    /\ Returned
    /\ NoTier1Clue
    /\ Cardinality(Tier2Clues) = 1
    /\ Cardinality(Tier2Keywords) = 2
    /\ Before(2) = Pct(85)
    /\ After(3) = Pct(70)

---------------------------------------------------------------------------
(* More claims about validateAnalysis, checked under ValidateSpec          *)

\* the positions of the message in the returned reasons
ReasonAt(msg) == { k \in DOMAIN outcome.reasons : outcome.reasons[k] = msg }

\* C20: with exactly 1 clue the returned confidence is at most 40 and, of
\* the two clue reasons, only 'Insufficient clues provided' is recorded; with
\* 0 clues the returned confidence is at most 20 and 'Insufficient clues
\* provided' is recorded and later 'No clues provided'.
C20_BothClueClamps ==
    Returned =>
        /\ Len(call.response.analysis.clues) = 1 =>
              /\ outcome.confidence <= Pct(40)
              /\ ReasonAt(MsgFewClues) # {}
              /\ ReasonAt(MsgNoClues) = {}
        /\ Len(call.response.analysis.clues) = 0 =>
              /\ outcome.confidence <= Pct(20)
              /\ \E j \in ReasonAt(MsgFewClues), k \in ReasonAt(MsgNoClues) : j < k

\* reached: no clue on land, 85 brought to 20 by the second clamp
C20_Witness ==
    /\ Returned
    /\ Len(call.response.analysis.clues) = 0
    /\ Before(7) = Pct(40)
    /\ After(7) = Pct(20)
    /\ outcome.confidence = Pct(20)
    /\ ReasonAt(MsgFewClues) # {}
    /\ ReasonAt(MsgNoClues) # {}

\* 'unknown' occurs in the text in some letter case
HoldsUnknown(text) == Positions(ToLowerCase(text), unknownWord) # {}

NamedUnknown ==
    \/ HoldsUnknown(call.response.location.city)
    \/ HoldsUnknown(call.response.location.country)

ShortReasoning == Len(call.response.analysis.reasoning) < 50

\* C21: the returned confidence is at most 30 when city or country holds
\* 'unknown' in any letter case, and at most 50 when the reasoning has fewer
\* than 50 characters, whatever the other rules did.
C21_UnknownAndReasoningCaps ==
    Returned =>
        /\ NamedUnknown => outcome.confidence <= Pct(30)
        /\ ShortReasoning => outcome.confidence <= Pct(50)

\* reached: a place named unknown with a short reasoning, brought from above
\* 30 to 30
C21_Witness ==
    /\ Returned
    /\ NamedUnknown
    /\ ShortReasoning
    /\ Before(9) > Pct(30)
    /\ After(9) = Pct(30)
    /\ outcome.confidence = Pct(30)

---------------------------------------------------------------------------
(* Claims about the order of the clamp rules, checked under PermuteSpec    *)

\* the confidence returned once the final score follows the rules applied
PermutedConfidence == finalScore([confidence |-> running, reasons |-> <<>>]).confidence

\* C22: with the uncertainty penalty applied first, the clamp rules 2 to 9
\* applied in any order return the confidence the listed order returns.
C22_ClampOrderIrrelevant ==
    (Returned /\ applied = ClampRules) => PermutedConfidence = outcome.confidence

\* reached: all rules applied one by one, four of them with different caps
\* having fired in the listed order, down to 30
C22_Witness ==
    /\ Returned
    /\ applied = ClampRules
    /\ Before(2) > Pct(70)
    /\ Len(outcome.reasons) >= 4
    /\ outcome.confidence = Pct(30)
    /\ PermutedConfidence = Pct(30)

---------------------------------------------------------------------------
(* More claims about analyzeImage, checked under Spec                      *)

Braces(text, brace) == { i \in DOMAIN text : text[i] = brace }

Least(set) == CHOOSE i \in set : \A j \in set : i <= j

Greatest(set) == CHOOSE i \in set : \A j \in set : i >= j

HasWideSpan(text) ==
    /\ Braces(text, "{") # {}
    /\ Braces(text, "}") # {}
    /\ Least(Braces(text, "{")) <= Greatest(Braces(text, "}"))

\* from the first '{' of the reply to its last '}'
WideSpan(text) == SubSeq(text, Least(Braces(text, "{")), Greatest(Braces(text, "}")))

IsObjectText(text) == \E o \in ReplyObjects : Serialize(o) = text

\* where the reply holds the text of the answer object
AnswerAt(text) == Positions(text, Serialize(MoscowObject))

\* for each reply text, whether it has a span from its first '{' to its last
\* '}' and whether that span is the text of an object
wideSpans ==
    [text \in ReplyTexts |->
        [has |-> HasWideSpan(text),
         object |-> HasWideSpan(text) /\ IsObjectText(WideSpan(text)),
         early |-> /\ HasWideSpan(text)
                   /\ AnswerAt(text) # {}
                   /\ Least(Braces(text, "{")) < Least(AnswerAt(text))]]

\* C23: the span the parser is given runs from the first '{' of the reply to
\* its last '}': a call resolves only if that whole span is the text of an
\* object, and when it is not, the call is rejected as a failed analysis
\* without validation, also when the reply holds a shorter balanced object.
C23_GreedySpanParsed ==
    \A r \in Requests :
        (Replied(r) /\ wideSpans[req[r].text].has) =>
            /\ req[r].settled.kind = "resolved" => wideSpans[req[r].text].object
            /\ ~wideSpans[req[r].text].object =>
                  /\ req[r].settled = Rejected(Error("Error", MsgFailed))
                  /\ req[r].validated = 0

\* reached: a brace pair in the prose before the answer object, and the call
\* rejected
C23_Witness ==
    \E r \in Requests :
        /\ Replied(r)
        /\ wideSpans[req[r].text].early
        /\ ~wideSpans[req[r].text].object
        /\ req[r].settled = Rejected(Error("Error", MsgFailed))

\* request r calls analyzeImage in this step
Starts(r) == req[r].pc = "idle" /\ req'[r].pc # "idle"

\* the first 100 characters of the image text
Prefix(image) == [i \in 1..MathMin(KeyLength, Len(image)) |-> image[i]]

\* how long ago the newest entry for an image with the prefix was stored
EntryAge(image) ==
    now - Greatest({ cache[k].timestamp : k \in { j \in DOMAIN cache : Prefix(j) = Prefix(image) } })

\* the requests that stored a result under the prefix of the image
Writers(image) == { p \in Requests : req[p].wrote /\ Prefix(req[p].image) = Prefix(image) }

\* request r returns the stored entry and the model is not called
ServedFromCache(r) ==
    /\ req'[r].pc = "done"
    /\ \E p \in Writers(req'[r].image) : req'[r].settled = req[p].settled
    /\ req'[r].validated = 0
    /\ modelCalls' = modelCalls

\* C24: after an image has been analysed, a call for a different image with
\* the same first 100 characters, made less than CACHE_TTL after the entry
\* was stored, returns the stored result of the first image without calling
\* the model.
C24_SharedPrefixServedFromCache ==
    [][ \A r, q \in Requests :
          ( /\ Starts(r)
            /\ req[q].wrote
            /\ req[q].image # req'[r].image
            /\ Prefix(req[q].image) = Prefix(req'[r].image)
            /\ EntryAge(req[q].image) < CACHE_TTL )
          => /\ ServedFromCache(r)
             /\ Writers(req[q].image) = {q} => req'[r].settled = req[q].settled ]_vars

\* reached: the second call, for another image with the same prefix, settled
\* with the result of the first and one model call was made
C24_Witness ==
    /\ req[1].wrote
    /\ req[2].pc = "done"
    /\ req[2].via = "cache"
    /\ req[2].image # req[1].image
    /\ Len(req[1].image) > KeyLength
    /\ req[2].settled = req[1].settled
    /\ modelCalls = 1

\* C29: a call for an image whose analysis has completed and was stored
\* returns the stored result without a model call and without validation
\* when less than CACHE_TTL has passed since the entry was stored, and calls
\* the model again when CACHE_TTL or more has passed.
C29_CachedForOneHour ==
    [][ \A r, q \in Requests :
          ( /\ Starts(r)
            /\ req[q].wrote
            /\ req[q].image = req'[r].image )
          => IF EntryAge(req[q].image) < CACHE_TTL
             THEN ServedFromCache(r)
             ELSE /\ req'[r].pc = "awaiting"
                  /\ modelCalls' = modelCalls + 1 ]_vars

\* reached: the second call for the same image, made half an hour after the
\* entry was stored, settled with the stored result; validateAnalysis ran
\* once in all
C29_Witness ==
    /\ req[1].wrote
    /\ req[1].validated = 1
    /\ req[2].pc = "done"
    /\ req[2].lookup = "fresh"
    /\ req[2].image = req[1].image
    /\ req[2].settled = req[1].settled
    /\ req[2].validated = 0
    /\ cache[Prefix(req[1].image)].timestamp = 0
    /\ now = CACHE_TTL \div 2
    /\ modelCalls = 1

---------------------------------------------------------------------------
(* Claims about agentService, checked under AgentSpec                      *)

\* C26: once cancelTask has returned true for a task, the status of that
\* task is 'failed' in every later state.
C26_CancelledStaysFailed ==
    \A taskId \in cancelled :
        taskId \in DOMAIN tasks => tasks[taskId].status = "failed"

====
